---- MODULE Spec2Model ----
(***************************************************************************)
(* VERA document pipeline: upload -> OCR worker -> review/validation ->    *)
(* summary -> export.  The relational tables are the state.  In Spec the   *)
(* API serves one request at a time, so a handler is one step; the celery  *)
(* worker runs beside it, one step for each of its commits.  SpecSessions  *)
(* runs the API in several processes, a handler being one step for each    *)
(* of its database sessions; SpecPool runs the task in a pool of worker    *)
(* processes.                                                              *)
(*                                                                         *)
(* Text is modelled as a sequence of symbols: a symbol is either an atom   *)
(* (a maximal run of non-whitespace characters, a TLA+ string), the space  *)
(* SP or the newline NL.  Optional values (None / NULL) are sequences of   *)
(* length at most one: None == <<>>, Some(x) == <<x>>.                     *)
(***************************************************************************)
EXTENDS Integers, Sequences, FiniteSets, TLC

VARIABLES
    documents,     \* table documents: id -> row (or NoRow)
    tokens,        \* table tokens: set of rows
    corrections,   \* table corrections: rows in insertion order
    audit_logs,    \* table audit_logs: rows in insertion order
    queue,         \* celery broker: document ids of pending vera.process_document tasks
    worker,        \* celery worker: position inside process_document
    redelivered,   \* number of task re-deliveries so far
    calls,         \* number of API requests served so far
    response,      \* the last API request and what it returned
    sessions,      \* process -> the handler or task it is inside, between two commits
    rules_cache    \* summary.py: _RULES_CACHE of the process that builds summaries

vars == <<documents, tokens, corrections, audit_logs, queue, worker, redelivered, calls,
          response, sessions, rules_cache>>

----------------------------------------------------------------------------
(* Bounds of the model *)

\* API requests and task re-deliveries in one behaviour
MaxCalls == 3
\* task re-deliveries in one behaviour
MaxRedeliver == 1
\* items in the corrections list of one validate request
MaxCorrections == 1

DocIds == {"d1"}

----------------------------------------------------------------------------
(* Generic helpers *)

None == <<>>
Some(x) == <<x>>

SP == " "
NL == "\n"

Range(s) == {s[i] : i \in 1..Len(s)}

RECURSIVE Flatten(_)
Flatten(ss) == IF ss = <<>> THEN <<>> ELSE Head(ss) \o Flatten(Tail(ss))

\* sep.join(parts), parts a sequence of symbol sequences, sep one symbol
RECURSIVE JoinWith(_, _)
JoinWith(sep, parts) ==
    IF parts = <<>> THEN <<>>
    ELSE IF Len(parts) = 1 THEN parts[1]
    ELSE parts[1] \o <<sep>> \o JoinWith(sep, Tail(parts))

NoRow == [status |-> "none"]

\* {} : a mapping with no keys
EmptyMap == [k \in {} |-> k]

----------------------------------------------------------------------------
(* schemas/documents.py *)

DocumentStatus == {"uploaded", "ocr_done", "review_in_progress", "validated", "summarized", "exported"}

\* the members DocumentStatus.processing and DocumentStatus.failed that
\* worker.py and ocr.py write; their declaration is not in schemas/documents.py
WorkerStatus == {"processing", "failed"}

Statuses == DocumentStatus \cup WorkerStatus

----------------------------------------------------------------------------
(* services/confidence.py -- scores are in hundredths *)

TRUSTED_THRESHOLD == 92
MEDIUM_THRESHOLD == 80

\* thresholds compared with > instead of >=
classify_confidence_exclusive(score) ==
    IF score > TRUSTED_THRESHOLD THEN "trusted"
    ELSE IF score > MEDIUM_THRESHOLD THEN "medium"
    ELSE "low"

classify_confidence(score) ==
    IF score >= TRUSTED_THRESHOLD THEN "trusted"
    ELSE IF score >= MEDIUM_THRESHOLD THEN "medium"
    ELSE "low"

\* The regular expressions of confidence.py evaluated on the texts of the
\* model's vocabulary (trimmed text -> does the pattern match).
CURRENCY_PATTERN(text) == text \in {<<"$12.00">>}
DATE_PATTERN(text) == text \in {}
TOTAL_PATTERN(text) == \E i \in 1..Len(text) : text[i] \in {"Total"}
INVOICE_PATTERN(text) == FALSE
MALFORMED_PRICE_PATTERN(text) == FALSE

detect_forced_flags(text) ==
    (IF CURRENCY_PATTERN(text) THEN <<"currency_amount">> ELSE <<>>)
    \o (IF DATE_PATTERN(text) THEN <<"date">> ELSE <<>>)
    \o (IF TOTAL_PATTERN(text) THEN <<"total_keyword">> ELSE <<>>)
    \o (IF INVOICE_PATTERN(text) THEN <<"invoice_number">> ELSE <<>>)
    \o (IF MALFORMED_PRICE_PATTERN(text) THEN <<"malformed_price">> ELSE <<>>)

----------------------------------------------------------------------------
(* services/ocr.py *)

\* What the OCR engine can return for an image: lists of raw tokens
\* {text, confidence, bbox = <<x, y, w, h>>}.
RawToken(text, confidence, x, y) ==
    [text |-> text, confidence |-> confidence, bbox |-> <<x, y, 40, 10>>]

PageReceipt == << RawToken(<<"12,50">>, 85, 50, 4), RawToken(<<"Total">>, 95, 0, 0) >>
PageLetter == << RawToken(<<"Acme">>, 99, 0, 0), RawToken(<<"$12.00">>, 95, 0, 30) >>
PageBlank == << >>

OcrPages == {PageReceipt, PageLetter, PageBlank}

\* the sort keys of _line_group_tokens: (bbox[1], bbox[0]) and bbox[0]
KeyLess(key, a, b) ==
    IF key = "yx"
    THEN \/ a.bbox[2] < b.bbox[2]
         \/ a.bbox[2] = b.bbox[2] /\ a.bbox[1] < b.bbox[1]
    ELSE a.bbox[1] < b.bbox[1]

\* a sort that leaves the list as it is
unsorted(s, key) == s

\* sorted(seq, key): Python's sort is stable; insertion keeps the input order of ties
RECURSIVE InsertSorted(_, _, _)
InsertSorted(key, t, s) ==
    IF s = <<>> THEN <<t>>
    ELSE IF KeyLess(key, t, Head(s)) THEN <<t>> \o s
    ELSE <<Head(s)>> \o InsertSorted(key, t, Tail(s))

RECURSIVE sorted(_, _)
sorted(s, key) ==
    IF s = <<>> THEN <<>>
    ELSE InsertSorted(key, s[Len(s)], sorted(SubSeq(s, 1, Len(s) - 1), key))

LINE_THRESHOLD == 12

Abs(n) == IF n < 0 THEN -n ELSE n

\* a sweep whose current_y is the true mean of the tops of the line
RECURSIVE LineSweep_true_mean(_, _, _, _, _)
LineSweep_true_mean(rest, lines, current, num, den) ==
    IF rest = <<>> THEN
        IF current # <<>> THEN Append(lines, sorted(current, "x")) ELSE lines
    ELSE
        LET token == Head(rest)
            y == token.bbox[2]
        IN  IF current = <<>> \/ Abs(y * den - num) <= LINE_THRESHOLD * den THEN
                LineSweep_true_mean(Tail(rest), lines, Append(current, token),
                          IF current = <<>> THEN y ELSE num + y,
                          IF current = <<>> THEN 1 ELSE den + 1)
            ELSE
                LineSweep_true_mean(Tail(rest), Append(lines, sorted(current, "x")),
                          <<token>>, y, 1)

\* The sweep of _line_group_tokens.  current_y is the fraction num/den
\* (den a power of two), so (current_y + y) / 2 is exact.
RECURSIVE LineSweep(_, _, _, _, _)
LineSweep(rest, lines, current, num, den) ==
    IF rest = <<>> THEN
        IF current # <<>> THEN Append(lines, sorted(current, "x")) ELSE lines
    ELSE
        LET token == Head(rest)
            y == token.bbox[2]
        IN  IF current = <<>> \/ Abs(y * den - num) <= LINE_THRESHOLD * den THEN
                LineSweep(Tail(rest), lines, Append(current, token),
                          IF current = <<>> THEN y ELSE num + y * den,
                          IF current = <<>> THEN 1 ELSE 2 * den)
            ELSE
                LineSweep(Tail(rest), Append(lines, sorted(current, "x")),
                          <<token>>, y, 1)

\* a grouper that sweeps the tokens in the order they were given in
line_group_tokens_as_given(raw_tokens) ==
    IF raw_tokens = <<>> THEN <<>>
    ELSE
        LET lines == LineSweep(raw_tokens, <<>>, <<>>, 0, 1)
        IN  Flatten([li \in 1..Len(lines) |->
                [ti \in 1..Len(lines[li]) |->
                    [text |-> lines[li][ti].text,
                     confidence |-> lines[li][ti].confidence,
                     bbox |-> lines[li][ti].bbox,
                     line_index |-> li - 1,
                     token_index |-> ti - 1,
                     line_id |-> <<"line", li - 1>>]]])

line_group_tokens(raw_tokens) ==
    IF raw_tokens = <<>> THEN <<>>
    ELSE
        LET lines == LineSweep(sorted(raw_tokens, "yx"), <<>>, <<>>, 0, 1)
        IN  Flatten([li \in 1..Len(lines) |->
                [ti \in 1..Len(lines[li]) |->
                    [text |-> lines[li][ti].text,
                     confidence |-> lines[li][ti].confidence,
                     bbox |-> lines[li][ti].bbox,
                     line_index |-> li - 1,
                     token_index |-> ti - 1,
                     line_id |-> <<"line", li - 1>>]]])

\* sha1(...)[:10] of the bbox; distinct boxes of the model have distinct hashes
bbox_hash(bbox) == bbox

\* one Token row of run_ocr_for_document
\* a row whose forced_review looks at the confidence tier alone
TokenRow_tier_only(document_id, raw) ==
    LET confidence_label == classify_confidence(raw.confidence)
        flags == detect_forced_flags(raw.text)
    IN  [id |-> <<document_id, raw.line_index, raw.token_index, bbox_hash(raw.bbox)>>,
         document_id |-> document_id,
         line_index |-> raw.line_index,
         token_index |-> raw.token_index,
         text |-> raw.text,
         confidence |-> raw.confidence,
         confidence_label |-> confidence_label,
         forced_review |-> (confidence_label # "trusted"),
         line_id |-> raw.line_id,
         bbox |-> raw.bbox,
         flags |-> flags]

TokenRow(document_id, raw) ==
    LET confidence_label == classify_confidence(raw.confidence)
        flags == detect_forced_flags(raw.text)
    IN  [id |-> <<document_id, raw.line_index, raw.token_index, bbox_hash(raw.bbox)>>,
         document_id |-> document_id,
         line_index |-> raw.line_index,
         token_index |-> raw.token_index,
         text |-> raw.text,
         confidence |-> raw.confidence,
         confidence_label |-> confidence_label,
         forced_review |-> (confidence_label # "trusted" \/ Len(flags) > 0),
         line_id |-> raw.line_id,
         bbox |-> raw.bbox,
         flags |-> flags]

----------------------------------------------------------------------------
(* Rows *)

AuditLog(document_id, event_type, detail) ==
    [document_id |-> document_id, event_type |-> event_type, detail |-> detail]

Correction(document_id, token_id, original_text, corrected_text) ==
    [document_id |-> document_id, token_id |-> token_id,
     original_text |-> original_text, corrected_text |-> corrected_text]

Idle == [pc |-> "idle"]

\* the processes beside the worker of Spec: API server processes (uvicorn
\* workers) and the processes of the celery pool
ApiProcs == {"api1", "api2"}
PoolProcs == {"pool1", "pool2"}
Procs == ApiProcs \cup PoolProcs

NoResponse == [op |-> "none"]

Init ==
    /\ documents = [d \in DocIds |-> NoRow]
    /\ tokens = {}
    /\ corrections = <<>>
    /\ audit_logs = <<>>
    /\ queue = {}
    /\ worker = Idle
    /\ redelivered = 0
    /\ calls = 0
    /\ response = NoResponse
    /\ sessions = [p \in Procs |-> Idle]
    /\ rules_cache = EmptyMap

----------------------------------------------------------------------------
(* main.py: POST /documents/upload *)

\* The row is committed first; send_task then either enqueues the task or
\* raises (broker or worker not available).
upload_document(d, dispatched) ==
    /\ documents[d] = NoRow
    /\ documents' = [documents EXCEPT ![d] =
            [status |-> "uploaded", validated_text |-> None,
             structured_fields |-> EmptyMap, doc_type |-> None, locale |-> None]]
    /\ queue' = IF dispatched THEN queue \cup {d} ELSE queue
    /\ UNCHANGED <<tokens, corrections, audit_logs, worker, redelivered, rules_cache, calls, response, sessions>>

----------------------------------------------------------------------------
(* worker.py: process_document, and services/ocr.py: run_ocr_for_document *)

\* at-least-once delivery: the broker hands a delivered task out again
Redeliver(d) ==
    /\ redelivered < MaxRedeliver
    /\ calls + redelivered < MaxCalls
    /\ documents[d] # NoRow
    /\ d \notin queue
    /\ queue' = queue \cup {d}
    /\ redelivered' = redelivered + 1
    /\ UNCHANGED <<documents, tokens, corrections, audit_logs, worker, calls, response,
                   sessions, rules_cache>>

\* first session of process_document: status := processing, commit
process_document_start(d) ==
    /\ worker.pc = "idle"
    /\ d \in queue
    /\ documents[d] # NoRow
    /\ queue' = queue \ {d}
    /\ documents' = [documents EXCEPT ![d].status = "processing"]
    /\ worker' = [pc |-> "ocr", document_id |-> d]
    /\ UNCHANGED <<tokens, corrections, audit_logs, redelivered, rules_cache, calls, response, sessions>>

\* an OCR commit that adds the new rows without deleting the stored ones
run_ocr_commit_accumulate(raw_tokens) ==
    /\ worker.pc = "ocr"
    /\ LET d == worker.document_id
           grouped_tokens == line_group_tokens(raw_tokens)
           rows == {TokenRow(d, grouped_tokens[i]) : i \in 1..Len(grouped_tokens)}
       IN  /\ tokens' = tokens \cup rows
           /\ documents' = [documents EXCEPT ![d].status = "ocr_done"]
           /\ worker' = [pc |-> "audit", document_id |-> d,
                         token_count |-> Len(grouped_tokens)]
    /\ UNCHANGED <<corrections, audit_logs, queue, redelivered, rules_cache, calls, response, sessions>>

\* first session of run_ocr_for_document: replace the tokens, status := ocr_done
run_ocr_commit(raw_tokens) ==
    /\ worker.pc = "ocr"
    /\ LET d == worker.document_id
           grouped_tokens == line_group_tokens(raw_tokens)
           rows == {TokenRow(d, grouped_tokens[i]) : i \in 1..Len(grouped_tokens)}
       IN  /\ tokens' = {t \in tokens : t.document_id # d} \cup rows
           /\ documents' = [documents EXCEPT ![d].status = "ocr_done"]
           /\ worker' = [pc |-> "audit", document_id |-> d,
                         token_count |-> Len(grouped_tokens)]
    /\ UNCHANGED <<corrections, audit_logs, queue, redelivered, rules_cache, calls, response, sessions>>

\* second session of run_ocr_for_document: the ocr_completed audit entry
run_ocr_audit ==
    /\ worker.pc = "audit"
    /\ audit_logs' = Append(audit_logs,
            AuditLog(worker.document_id, "ocr_completed",
                     [token_count |-> worker.token_count]))
    /\ worker' = Idle
    /\ UNCHANGED <<documents, tokens, corrections, queue, redelivered, rules_cache, calls, response, sessions>>

\* an except branch that records the error and leaves the status as it is
process_document_failed_status_kept ==
    /\ worker.pc = "ocr"
    /\ audit_logs' = Append(audit_logs,
            AuditLog(worker.document_id, "ocr_failed", [error |-> "ocr_failed"]))
    /\ worker' = Idle
    /\ UNCHANGED <<documents, tokens, corrections, queue, redelivered, rules_cache, calls, response, sessions>>

\* Image.open or the OCR engine raises: the except branch of process_document
process_document_failed ==
    /\ worker.pc = "ocr"
    /\ documents' = [documents EXCEPT ![worker.document_id].status = "failed"]
    /\ audit_logs' = Append(audit_logs,
            AuditLog(worker.document_id, "ocr_failed", [error |-> "ocr_failed"]))
    /\ worker' = Idle
    /\ UNCHANGED <<tokens, corrections, queue, redelivered, rules_cache, calls, response, sessions>>

----------------------------------------------------------------------------
(* services/validation.py: apply_corrections *)

DocTokens(d) == {t \in tokens : t.document_id = d}

\* select(Token) ... order_by(line_index, token_index)
RECURSIVE OrderTokens(_)
OrderTokens(ts) ==
    IF ts = {} THEN <<>>
    ELSE LET first == CHOOSE t \in ts : \A u \in ts :
                        \/ t.line_index < u.line_index
                        \/ t.line_index = u.line_index /\ t.token_index <= u.token_index
         IN  <<first>> \o OrderTokens(ts \ {first})

\* {item["token_id"]: item["corrected_text"] for item in corrections}: a later
\* item for the same token replaces the earlier one
RECURSIVE corrections_by_token(_)
corrections_by_token(items) ==
    IF items = <<>> THEN EmptyMap
    ELSE LET last == items[Len(items)]
             rest == corrections_by_token(SubSeq(items, 1, Len(items) - 1))
         IN  [k \in (DOMAIN rest) \cup {last.token_id} |->
                 IF k = last.token_id THEN last.corrected_text ELSE rest[k]]

\* list(corrections_by_token.keys()): keys in order of first insertion
RECURSIVE KeysInOrder(_, _)
KeysInOrder(items, seen) ==
    IF items = <<>> THEN <<>>
    ELSE IF Head(items).token_id \in seen THEN KeysInOrder(Tail(items), seen)
    ELSE <<Head(items).token_id>>
         \o KeysInOrder(Tail(items), seen \cup {Head(items).token_id})

\* a reviewed set without the corrected token ids
reviewed_set_listed_only(req) == req.reviewed_token_ids

reviewed_set(req) ==
    req.reviewed_token_ids \cup DOMAIN corrections_by_token(req.corrections)

\* a lookup that ignores the correction
CorrectedText_original(by_token, token) == token.text

\* corrections_by_token.get(token.id, token.text)
CorrectedText(by_token, token) ==
    IF token.id \in DOMAIN by_token THEN by_token[token.id] ELSE token.text

\* a token loop that skips a correction equal to the original text
RECURSIVE NewCorrections_changed_only(_, _, _)
NewCorrections_changed_only(d, ordered, by_token) ==
    IF ordered = <<>> THEN <<>>
    ELSE (IF Head(ordered).id \in DOMAIN by_token
             /\ by_token[Head(ordered).id] # Head(ordered).text
          THEN << Correction(d, Head(ordered).id, Head(ordered).text,
                             by_token[Head(ordered).id]) >>
          ELSE <<>>)
         \o NewCorrections_changed_only(d, Tail(ordered), by_token)

\* the Correction rows the token loop adds, in token order
RECURSIVE NewCorrections(_, _, _)
NewCorrections(d, ordered, by_token) ==
    IF ordered = <<>> THEN <<>>
    ELSE (IF Head(ordered).id \in DOMAIN by_token
          THEN << Correction(d, Head(ordered).id, Head(ordered).text,
                             CorrectedText(by_token, Head(ordered))) >>
          ELSE <<>>)
         \o NewCorrections(d, Tail(ordered), by_token)

\* validated_lines.setdefault(line_index, []).append(corrected_text), token by token
RECURSIVE ValidatedLines(_, _, _)
ValidatedLines(ordered, by_token, acc) ==
    IF ordered = <<>> THEN acc
    ELSE LET token == Head(ordered)
             li == token.line_index
             text == CorrectedText(by_token, token)
         IN  ValidatedLines(Tail(ordered), by_token,
                 [k \in (DOMAIN acc) \cup {li} |->
                     IF k = li
                     THEN (IF li \in DOMAIN acc THEN acc[li] ELSE <<>>) \o <<text>>
                     ELSE acc[k]])

\* sorted(validated_lines.keys())
RECURSIVE SortedKeys(_)
SortedKeys(ks) ==
    IF ks = {} THEN <<>>
    ELSE LET m == CHOOSE k \in ks : \A j \in ks : k <= j
         IN  <<m>> \o SortedKeys(ks \ {m})

\* "\n".join(" ".join(validated_lines[i]) for i in sorted(validated_lines.keys()))
ValidatedText(ordered, by_token) ==
    LET validated_lines == ValidatedLines(ordered, by_token, EmptyMap)
        keys == SortedKeys(DOMAIN validated_lines)
    IN  JoinWith(NL, [i \in 1..Len(keys) |-> JoinWith(SP, validated_lines[keys[i]])])

UtcNow == Some("utcnow")

\* a status that ignores review_complete
StatusValue_in_progress(review_complete) == "review_in_progress"

\* the two branches of "if review_complete"
StatusValue(review_complete) ==
    IF review_complete THEN "validated" ELSE "review_in_progress"

\* an update that writes validated_text in both branches
PersistedText_always(review_complete, validated_text, stored) == Some(validated_text)

\* the validated_text column after the update: written only when review_complete
PersistedText(review_complete, validated_text, stored) ==
    IF review_complete THEN Some(validated_text) ELSE stored

ValidatedAt(review_complete) == IF review_complete THEN UtcNow ELSE None

\* audit entries without the one for the supplied fields
ValidationAudit_without_fields(d, req) ==
    LET by_token == corrections_by_token(req.corrections)
    IN  (IF DOMAIN by_token # {}
         THEN << AuditLog(d, "corrections_applied",
                          [count |-> Cardinality(DOMAIN by_token),
                           token_ids |-> KeysInOrder(req.corrections, {})]) >>
         ELSE <<>>)
        \o << AuditLog(d, IF req.review_complete THEN "review_completed" ELSE "review_saved",
                       [review_complete |-> req.review_complete,
                        reviewed_tokens |-> Cardinality(reviewed_set(req))]) >>

\* the audit entries of one successful call, in the order they are added
ValidationAudit(d, req) ==
    LET by_token == corrections_by_token(req.corrections)
    IN  (IF DOMAIN by_token # {}
         THEN << AuditLog(d, "corrections_applied",
                          [count |-> Cardinality(DOMAIN by_token),
                           token_ids |-> KeysInOrder(req.corrections, {})]) >>
         ELSE <<>>)
        \o << AuditLog(d, IF req.review_complete THEN "review_completed" ELSE "review_saved",
                       [review_complete |-> req.review_complete,
                        reviewed_tokens |-> Cardinality(reviewed_set(req))]) >>
        \o (IF req.structured_fields # None
            THEN << AuditLog(d, "fields_updated",
                             [field_count |-> Cardinality(DOMAIN req.structured_fields[1])]) >>
            ELSE <<>>)

\* a completeness check that also counts the tokens corrected by earlier calls
Missing_remembering(d, req) ==
    {t.id : t \in {u \in DocTokens(d) : u.forced_review}}
        \ (reviewed_set(req)
              \cup {corrections[i].token_id : i \in DOMAIN corrections})

\* forced-review token ids that are not in the reviewed set
Missing(d, req) ==
    {t.id : t \in {u \in DocTokens(d) : u.forced_review}} \ reviewed_set(req)

Failure(op, d, req, error) ==
    [op |-> op, document_id |-> d, request |-> req, error |-> error, result |-> None]

Success(op, d, req, result) ==
    [op |-> op, document_id |-> d, request |-> req, error |-> "none", result |-> Some(result)]

\* a handler that commits status review_in_progress before it checks
Reject_status_first(op, d, req, error) ==
    /\ response' = Failure(op, d, req, error)
    /\ documents' = IF documents[d] = NoRow THEN documents
                    ELSE [documents EXCEPT ![d].status = "review_in_progress"]
    /\ UNCHANGED <<corrections, audit_logs>>

\* raise ValueError / HTTPException before anything was added to the session:
\* the session is closed without a commit
Reject(op, d, req, error) ==
    /\ response' = Failure(op, d, req, error)
    /\ UNCHANGED <<documents, corrections, audit_logs>>

\* a validation that writes the corrected texts into the token rows
apply_corrections_rewrites_tokens(d, req) ==
    /\ calls + redelivered < MaxCalls
    /\ calls' = calls + 1
    /\ IF documents[d] = NoRow THEN
           /\ Reject("apply_corrections", d, req, "document_not_found")
           /\ tokens' = tokens
       ELSE IF req.review_complete /\ Missing(d, req) # {} THEN
           /\ Reject("apply_corrections", d, req, "review_incomplete")
           /\ tokens' = tokens
       ELSE
           LET by_token == corrections_by_token(req.corrections)
               ordered == OrderTokens(DocTokens(d))
               validated_text == ValidatedText(ordered, by_token)
               status_value == StatusValue(req.review_complete)
               validated_at == ValidatedAt(req.review_complete)
           IN  /\ corrections' = corrections \o NewCorrections(d, ordered, by_token)
               /\ tokens' = {IF t.id \in DOMAIN by_token
                             THEN [t EXCEPT !.text = by_token[t.id]] ELSE t : t \in tokens}
               /\ documents' = [documents EXCEPT ![d] =
                      [@ EXCEPT
                         !.status = status_value,
                         !.validated_text =
                             PersistedText(req.review_complete, validated_text, @),
                         !.structured_fields =
                             IF req.structured_fields # None
                             THEN req.structured_fields[1] ELSE @]]
               /\ audit_logs' = audit_logs \o ValidationAudit(d, req)
               /\ response' = Success("apply_corrections", d, req,
                      [validated_text |-> validated_text,
                       status |-> status_value,
                       validated_at |-> validated_at])
    /\ UNCHANGED <<queue, worker, redelivered, rules_cache, sessions>>

apply_corrections(d, req) ==
    /\ calls + redelivered < MaxCalls
    /\ calls' = calls + 1
    /\ IF documents[d] = NoRow THEN
           Reject("apply_corrections", d, req, "document_not_found")
       ELSE IF req.review_complete /\ Missing(d, req) # {} THEN
           Reject("apply_corrections", d, req, "review_incomplete")
       ELSE
           LET by_token == corrections_by_token(req.corrections)
               ordered == OrderTokens(DocTokens(d))
               validated_text == ValidatedText(ordered, by_token)
               status_value == StatusValue(req.review_complete)
               validated_at == ValidatedAt(req.review_complete)
           IN  /\ corrections' = corrections \o NewCorrections(d, ordered, by_token)
               /\ documents' = [documents EXCEPT ![d] =
                      [@ EXCEPT
                         !.status = status_value,
                         !.validated_text =
                             PersistedText(req.review_complete, validated_text, @),
                         !.structured_fields =
                             IF req.structured_fields # None
                             THEN req.structured_fields[1] ELSE @]]
               /\ audit_logs' = audit_logs \o ValidationAudit(d, req)
               /\ response' = Success("apply_corrections", d, req,
                      [validated_text |-> validated_text,
                       status |-> status_value,
                       validated_at |-> validated_at])
    /\ UNCHANGED <<tokens, queue, worker, redelivered, rules_cache, sessions>>

\* the requests of the model
CorrectedTexts == {<<"$12.00">>}

CorrectionItems(d) ==
    [token_id : {t.id : t \in DocTokens(d)},
     corrected_text : CorrectedTexts]

SeqsUpTo(S, n) == UNION {[1..k -> S] : k \in 0..n}

FieldInputs == {None}

ValidateRequests(d) ==
    [corrections : SeqsUpTo(CorrectionItems(d), MaxCorrections),
     reviewed_token_ids : SUBSET {t.id : t \in DocTokens(d)},
     review_complete : BOOLEAN,
     structured_fields : FieldInputs]

----------------------------------------------------------------------------
(* services/summary.py: _build_summary_from_text *)

\* The regular expressions of summary.py evaluated on the atoms of the
\* model's vocabulary: the matches of a pattern inside one atom, in order.
\* No pattern matches across two atoms of the vocabulary.  The date atoms
\* stand in the lines given to the date extraction only, and are listed with
\* their matches of the five date patterns; the amounts "12.50",
\* "USD 1,234.50", "usd 1,234.50" and "1.234,56" stand in the lines given to
\* the amount extraction only, and are listed with their matches of the
\* amount and locale patterns.
AtomMatches(pattern, atom) ==
    CASE pattern = "currency_symbol" /\ atom = "$12.00" -> <<"$12.00">>
      [] pattern = "number_amount" /\ atom = "$12.00" -> <<"12.00">>
      [] pattern = "number_amount" /\ atom = "12,50" -> <<"12,50">>
      [] pattern = "comma_decimal" /\ atom = "12,50" -> <<"12,50">>
      [] pattern = "number_amount" /\ atom = "12.50" -> <<"12.50">>
      [] pattern = "currency_code" /\ atom = "USD 1,234.50" -> <<"USD 1,234.50">>
      [] pattern = "number_amount" /\ atom = "USD 1,234.50" -> <<"1,234.50">>
      [] pattern = "currency_code" /\ atom = "usd 1,234.50" -> <<"usd 1,234.50">>
      [] pattern = "number_amount" /\ atom = "usd 1,234.50" -> <<"1,234.50">>
      [] pattern = "number_amount" /\ atom = "1.234,56" -> <<"1.234,56">>
      [] pattern = "euro" /\ atom = "1.234,56" -> <<"1.234,56">>
      [] pattern = "comma_decimal" /\ atom = "1.234,56" -> <<"234,56">>
      [] pattern = "date_iso" /\ atom = "2026-02-01" -> <<"2026-02-01">>
      [] pattern = "date_month_first" /\ atom = "Jan 5, 2026" -> <<"Jan 5, 2026">>
      [] pattern = "date_month_first" /\ atom = "JAN 5, 2026" -> <<"JAN 5, 2026">>
      [] OTHER -> <<>>

\* pattern.findall(line) / pattern.finditer(line)
RECURSIVE FindAll(_, _)
FindAll(pattern, line) ==
    IF line = <<>> THEN <<>>
    ELSE AtomMatches(pattern, Head(line)) \o FindAll(pattern, Tail(line))

\* term in line.lower(), for the terms of summary.py and the atoms of the
\* vocabulary: the (term, atom) pairs where the lowercased atom contains the term
TermInAtom(term, atom) ==
    <<term, atom>> \in {<<"total", "Total">>,
                        <<"total", "Subtotal">>, <<"subtotal", "Subtotal">>,
                        <<"invoice", "Invoice">>,
                        <<"statement", "Statement">>,
                        <<"balance", "Balance">>,
                        <<"report", "Report">>,
                        <<"tax", "Tax">>}

TermIn(term, line) == \E i \in 1..Len(line) : TermInAtom(term, line[i])

AnyTermIn(terms, line) == \E i \in 1..Len(terms) : TermIn(terms[i], line)

\* re.findall(r"[A-Za-z][A-Za-z0-9'-]+", atom.lower())
AtomWords(atom) ==
    CASE atom = "Total" -> <<"total">>
      [] atom = "Acme" -> <<"acme">>
      [] OTHER -> <<>>

\* the characters of the amounts the patterns can match
Chars(value) ==
    CASE value = "$12.00" -> <<"$", "1", "2", ".", "0", "0">>
      [] value = "12.00" -> <<"1", "2", ".", "0", "0">>
      [] value = "12,50" -> <<"1", "2", ",", "5", "0">>
      [] value = "12.50" -> <<"1", "2", ".", "5", "0">>
      [] value = "USD 1,234.50" -> <<"USD", " ", "1", ",", "2", "3", "4", ".", "5", "0">>
      [] value = "usd 1,234.50" -> <<"usd", " ", "1", ",", "2", "3", "4", ".", "5", "0">>
      [] value = "1,234.50" -> <<"1", ",", "2", "3", "4", ".", "5", "0">>
      [] value = "1.234,56" -> <<"1", ".", "2", "3", "4", ",", "5", "6">>

\* validated_text.splitlines()
RECURSIVE SplitLines(_)
SplitLines(text) ==
    IF text = <<>> THEN <<>>
    ELSE IF \E i \in 1..Len(text) : text[i] = NL
    THEN LET i == CHOOSE i \in 1..Len(text) :
                    text[i] = NL /\ \A j \in 1..(i - 1) : text[j] # NL
         IN  <<SubSeq(text, 1, i - 1)>> \o SplitLines(SubSeq(text, i + 1, Len(text)))
    ELSE <<text>>

\* line.split(): the atoms of the line
RECURSIVE Split(_)
Split(line) ==
    IF line = <<>> THEN <<>>
    ELSE IF Head(line) \in {SP, NL} THEN Split(Tail(line))
    ELSE <<Head(line)>> \o Split(Tail(line))

\* line.strip()
RECURSIVE LStrip(_)
LStrip(line) ==
    IF line # <<>> /\ Head(line) \in {SP, NL} THEN LStrip(Tail(line)) ELSE line

RECURSIVE RStrip(_)
RStrip(line) ==
    IF line # <<>> /\ line[Len(line)] \in {SP, NL}
    THEN RStrip(SubSeq(line, 1, Len(line) - 1)) ELSE line

Strip(line) == RStrip(LStrip(line))

\* [f(x) for x in s if keep(x)] building blocks
RECURSIVE NonBlankStripped(_)
NonBlankStripped(raw_lines) ==
    IF raw_lines = <<>> THEN <<>>
    ELSE (IF Strip(Head(raw_lines)) # <<>> THEN <<Strip(Head(raw_lines))>> ELSE <<>>)
         \o NonBlankStripped(Tail(raw_lines))

RECURSIVE SumLen(_)
SumLen(ss) == IF ss = <<>> THEN 0 ELSE Len(Head(ss)) + SumLen(Tail(ss))

\* _load_rules(): app/config/extraction_rules.json is absent, so the cache is {}
\* and every rules.get(key, default) returns the default
Rules == EmptyMap

RulesGet(key, default) == IF key \in DOMAIN Rules THEN Rules[key] ELSE default

\* _detect_doc_type: the first doc type of rules one of whose terms occurs
detect_doc_type(lines) ==
    LET keywords == RulesGet("doc_type_keywords", EmptyMap)
    IN  IF \E doc_type \in DOMAIN keywords :
               \E i \in 1..Len(lines) : AnyTermIn(keywords[doc_type], lines[i])
        THEN CHOOSE doc_type \in DOMAIN keywords :
               \E i \in 1..Len(lines) : AnyTermIn(keywords[doc_type], lines[i])
        ELSE "general"

\* _detect_locale (euro_pattern needs a dot-grouped number, which no atom has)
detect_locale(lines) ==
    IF \E i \in 1..Len(lines) :
           FindAll("euro", lines[i]) # <<>> \/ FindAll("comma_decimal", lines[i]) # <<>>
    THEN "EU" ELSE "US"

\* x or y, for an optional string x
OrElse(override, value) ==
    IF override # None /\ override[1] # "" THEN override[1] ELSE value

\* ---- normalize_amount, on characters ----

Remove(c, raw) == SelectSeq(raw, LAMBDA x : x # c)

Replace(c, by, raw) == [i \in 1..Len(raw) |-> IF raw[i] = c THEN by ELSE raw[i]]

Has(c, raw) == \E i \in 1..Len(raw) : raw[i] = c

\* raw.rfind(c): 0-based index of the last c, -1 when absent
RFind(c, raw) ==
    IF Has(c, raw) THEN (CHOOSE i \in 1..Len(raw) :
                            raw[i] = c /\ \A j \in (i + 1)..Len(raw) : raw[j] # c) - 1
    ELSE -1

\* len(raw.split(c)[-1])
LastPartLen(c, raw) == Len(raw) - (RFind(c, raw) + 1)

CurrencySymbols == {"$", "£", "€"}

\* (USD|AUD|CAD|GBP|EUR) with re.IGNORECASE, and group(1).upper(); a code is
\* one symbol of the characters of a value
CurrencyCode(c) ==
    CASE c \in {"USD", "usd"} -> <<"USD">>
      [] OTHER -> <<>>

\* a normalization that takes every comma for a thousands separator
normalize_amount_comma_thousands(value, locale) ==
    LET raw0 == Chars(value)
        codes == SelectSeq(raw0, LAMBDA c : CurrencyCode(c) # <<>>)
        code_prefix == IF codes # <<>> THEN CurrencyCode(codes[1]) \o <<" ">> ELSE <<>>
        raw1 == IF codes # <<>>
                THEN Strip(SelectSeq(raw0, LAMBDA c : CurrencyCode(c) = <<>>)) ELSE raw0
        starts_with_symbol == raw1 # <<>> /\ raw1[1] \in CurrencySymbols
        currency_prefix == IF starts_with_symbol THEN <<raw1[1]>> ELSE code_prefix
        raw2 == IF starts_with_symbol THEN Strip(Tail(raw1)) ELSE raw1
    IN  Strip(currency_prefix \o Remove(",", Remove(" ", raw2)))

\* the separators of a value without currency and blanks (the has_comma /
\* has_dot branches)
AmountSeparators(raw, locale) ==
    IF Has(",", raw) /\ Has(".", raw) THEN
        (IF RFind(",", raw) > RFind(".", raw)
         THEN Replace(",", ".", Remove(".", raw))
         ELSE Replace(".", ".", Remove(",", raw)))
    ELSE IF locale = "EU" /\ Has(",", raw) THEN Replace(",", ".", Remove(".", raw))
    ELSE IF locale = "US" /\ Has(",", raw) THEN
        (IF LastPartLen(",", raw) = 2
         THEN Replace(",", ".", Remove(".", raw))
         ELSE Remove(",", raw))
    ELSE IF Has(".", raw) THEN
        (IF LastPartLen(".", raw) = 2 THEN Remove(",", raw) ELSE Remove(".", raw))
    ELSE raw

\* a leading currency symbol replaces the prefix of the code; then blanks are
\* removed and the separators normalized
AmountSymbol(code_prefix, raw, locale) ==
    IF raw # <<>> /\ raw[1] \in CurrencySymbols
    THEN Strip(<<raw[1]>> \o AmountSeparators(Remove(" ", Strip(Tail(raw))), locale))
    ELSE Strip(code_prefix \o AmountSeparators(Remove(" ", raw), locale))

normalize_amount(value, locale) ==
    LET codes == SelectSeq(Chars(value), LAMBDA c : CurrencyCode(c) # <<>>)
    IN  IF codes # <<>>
        THEN AmountSymbol(CurrencyCode(codes[1]) \o <<" ">>,
                          Strip(SelectSeq(Chars(value), LAMBDA c : CurrencyCode(c) = <<>>)),
                          locale)
        ELSE AmountSymbol(<<>>, Chars(value), locale)

extract_amounts_from_line(line, allow_plain) ==
    LET values == FindAll("currency_symbol", line) \o FindAll("currency_code", line)
    IN  IF allow_plain /\ values = <<>> THEN FindAll("number_amount", line) ELSE values

\* an add_amounts that appends every normalized value
RECURSIVE add_amounts_all(_, _, _)
add_amounts_all(amounts, values, locale) ==
    IF values = <<>> THEN amounts
    ELSE add_amounts_all(Append(amounts, normalize_amount(Head(values), locale)),
                         Tail(values), locale)

\* add_amounts: append the normalized values not seen before
RECURSIVE add_amounts(_, _, _)
add_amounts(amounts, values, locale) ==
    IF values = <<>> THEN amounts
    ELSE LET normalized == normalize_amount(Head(values), locale)
         IN  add_amounts(IF normalized \in Range(amounts) THEN amounts
                         ELSE Append(amounts, normalized),
                         Tail(values), locale)

\* one of the three passes over the lines
RECURSIVE AmountPass(_, _, _, _, _)
AmountPass(amounts, lines, terms, allow_plain, locale) ==
    IF lines = <<>> THEN amounts
    ELSE AmountPass(
            IF terms = <<>> \/ AnyTermIn(terms, Head(lines))
            THEN add_amounts(amounts, extract_amounts_from_line(Head(lines), allow_plain), locale)
            ELSE amounts,
            Tail(lines), terms, allow_plain, locale)

TotalTerms == RulesGet("total_terms",
    <<"total", "amount due", "balance due", "grand total", "total due">>)

SubtotalTerms == RulesGet("subtotal_terms",
    <<"subtotal", "sub total", "tax", "vat", "amount", "balance", "due">>)

ExtractAmounts(lines, locale) ==
    LET pass1 == AmountPass(<<>>, lines, TotalTerms, TRUE, locale)
        pass2 == AmountPass(pass1, lines, SubtotalTerms, TRUE, locale)
    IN  AmountPass(pass2, lines, <<>>, FALSE, locale)

\* first-seen-wins list of the stripped matches of the patterns, line by line
RECURSIVE Dedup(_, _)
Dedup(values, out) ==
    IF values = <<>> THEN out
    ELSE Dedup(Tail(values),
               IF Head(values) \in Range(out) THEN out ELSE Append(out, Head(values)))

DatePatterns == <<"date_iso", "date_numeric", "date_month_first", "date_day_first", "date_dotted">>

ExtractDates(lines) ==
    Dedup(Flatten([i \in 1..Len(lines) |->
              Flatten([p \in 1..Len(DatePatterns) |-> FindAll(DatePatterns[p], lines[i])])]),
          <<>>)

ExtractList(pattern, lines) ==
    Dedup(Flatten([i \in 1..Len(lines) |-> FindAll(pattern, lines[i])]), <<>>)

\* phone matches made of digits only are dropped on a line naming vat, tax or id
IsDigit(value) == FALSE

ExtractPhones(lines) ==
    Dedup(Flatten([i \in 1..Len(lines) |->
              SelectSeq(FindAll("phone", lines[i]),
                        LAMBDA v : ~(IsDigit(v) /\ AnyTermIn(<<"vat", "tax", "id">>, lines[i])))]),
          <<>>)

\* ", ".join(values[:5]) if values else "Not detected"
NotDetected == <<"Not detected">>

TOP_N == 5

JoinTop(values) ==
    IF values = <<>> THEN NotDetected
    ELSE JoinWith(", ", [i \in 1..(IF Len(values) < TOP_N THEN Len(values) ELSE TOP_N) |->
                            values[i]])

\* doc_signals: (label, keywords), in table order
DocSignals == <<
    <<"Invoice/Receipt", <<"invoice", "receipt", "subtotal", "total", "amount due",
                           "balance due", "vat", "tax", "paid">> >>,
    <<"Statement", <<"statement", "account", "transactions", "balance",
                     "opening balance", "closing balance">> >>,
    <<"Purchase order", <<"purchase order", "po number", "ship to", "bill to">> >>,
    <<"Shipping/Delivery", <<"tracking", "shipment", "delivered", "carrier", "shipping label">> >>,
    <<"Legal/Contract", <<"agreement", "contract", "terms", "party", "liability">> >>,
    <<"Form/Application", <<"application", "form", "please fill", "checkbox", "signature">> >>,
    <<"Report", <<"report", "summary", "analysis", "findings">> >>,
    <<"Letter/Correspondence", <<"dear", "sincerely", "regards">> >>,
    <<"ID/Certificate", <<"certificate", "issued", "id number", "passport", "license">> >> >>

\* sum(1 for keyword in keywords if keyword in text_blob)
Hits(keywords, lines) ==
    Cardinality({k \in 1..Len(keywords) :
                    \E i \in 1..Len(lines) : TermIn(keywords[k], lines[i])})

\* a loop in which a label replaces the best one with as many hits
RECURSIVE BestSignal_last_wins(_, _, _, _)
BestSignal_last_wins(i, lines, best_label, best_hits) ==
    IF i > Len(DocSignals) THEN [label |-> best_label, hits |-> best_hits]
    ELSE LET hits == Hits(DocSignals[i][2], lines)
         IN  IF hits >= best_hits /\ hits > 0
             THEN BestSignal_last_wins(i + 1, lines, DocSignals[i][1], hits)
             ELSE BestSignal_last_wins(i + 1, lines, best_label, best_hits)

\* the loop over doc_signals: a label replaces the best one only with more hits
RECURSIVE BestSignal(_, _, _, _)
BestSignal(i, lines, best_label, best_hits) ==
    IF i > Len(DocSignals) THEN [label |-> best_label, hits |-> best_hits]
    ELSE LET hits == Hits(DocSignals[i][2], lines)
         IN  IF hits > best_hits
             THEN BestSignal(i + 1, lines, DocSignals[i][1], hits)
             ELSE BestSignal(i + 1, lines, best_label, best_hits)

HIGH_HITS == 3
MEDIUM_HITS == 2

SignalConfidence(best_hits) ==
    IF best_hits >= HIGH_HITS THEN "high"
    ELSE IF best_hits = MEDIUM_HITS THEN "medium"
    ELSE "low"

\* keyword ranking: the words of the vocabulary in lexical order; all have
\* three letters or more and none is a stopword
WordOrder == <<"acme", "total">>

WordRank(word) == CHOOSE i \in 1..Len(WordOrder) : WordOrder[i] = word

Count(word, words) == Cardinality({i \in 1..Len(words) : words[i] = word})

\* sorted(keyword_counts.items(), key=(-count, word))
RECURSIVE RankWords(_, _)
RankWords(candidates, words) ==
    IF candidates = {} THEN <<>>
    ELSE LET best == CHOOSE w \in candidates : \A v \in candidates :
                        \/ Count(w, words) > Count(v, words)
                        \/ Count(w, words) = Count(v, words) /\ WordRank(w) <= WordRank(v)
         IN  <<best>> \o RankWords(candidates \ {best}, words)

TopKeywords(validated_text) ==
    LET words == Flatten([i \in 1..Len(validated_text) |-> AtomWords(validated_text[i])])
    IN  RankWords(Range(words), words)

\* build_detailed_summary: paragraphs of period-terminated lines.  No atom of
\* the vocabulary ends in ".", "!" or "?", and every text of the model is
\* shorter than SUMMARY_MAX_CHARS, so nothing is cut.
NoTextDetected == <<"No text detected">>

RECURSIVE Paragraphs(_, _, _)
Paragraphs(raw_lines, paragraphs, current) ==
    IF raw_lines = <<>> THEN
        IF current # <<>> THEN Append(paragraphs, current) ELSE paragraphs
    ELSE LET atoms == Split(Head(raw_lines))
             cleaned == JoinWith(SP, [i \in 1..Len(atoms) |-> <<atoms[i]>>])
         IN  IF cleaned = <<>> THEN
                 Paragraphs(Tail(raw_lines),
                            IF current # <<>> THEN Append(paragraphs, current) ELSE paragraphs,
                            <<>>)
             ELSE Paragraphs(Tail(raw_lines), paragraphs, Append(current, cleaned \o <<".">>))

RECURSIVE JoinParagraphs(_)
JoinParagraphs(texts) ==
    IF texts = <<>> THEN <<>>
    ELSE IF Len(texts) = 1 THEN texts[1]
    ELSE texts[1] \o <<NL, NL>> \o JoinParagraphs(Tail(texts))

build_detailed_summary(raw_lines) ==
    IF raw_lines = <<>> THEN NoTextDetected
    ELSE LET paragraphs == Paragraphs(raw_lines, <<>>, <<>>)
             summary_text == Strip(JoinParagraphs(
                 [i \in 1..Len(paragraphs) |-> JoinWith(SP, paragraphs[i])]))
         IN  IF summary_text # <<>> THEN summary_text ELSE NoTextDetected

\* a fetch that hands the failure reason on as if it were the summary
fetch_llm_detailed_summary_reason(llm) ==
    IF llm = None THEN Some(<<"exception">>)
    ELSE IF llm[1] = <<>> THEN Some(<<"empty_response">>)
    ELSE llm

\* llm is what the LLM server did on every attempt: None for an HTTP error or
\* an exception, else the stripped response text; the function returns the
\* text if it is not empty, and None after the last failed attempt
fetch_llm_detailed_summary(llm) ==
    IF llm # None /\ llm[1] # <<>> THEN llm ELSE None

build_summary_from_text(validated_text, model_override, llm, doc_type_override, locale_override) ==
    LET raw_lines == SplitLines(validated_text)
        lines == NonBlankStripped(raw_lines)
        doc_type == OrElse(doc_type_override, detect_doc_type(lines))
        locale == OrElse(locale_override, detect_locale(lines))
        line_count == Len(lines)
        word_count == SumLen([i \in 1..Len(lines) |-> Split(lines[i])])
        dates == ExtractDates(lines)
        amounts == ExtractAmounts(lines, locale)
        fetched == IF model_override # None
                   THEN fetch_llm_detailed_summary(llm) ELSE None
        detailed_summary ==
            IF fetched # None THEN fetched[1] ELSE build_detailed_summary(raw_lines)
        best == BestSignal(1, lines, "Unknown", 0)
        confidence == SignalConfidence(best.hits)
        keyword_text == JoinTop([i \in 1..Len(TopKeywords(validated_text)) |->
                                    <<TopKeywords(validated_text)[i]>>])
        date_text == JoinTop([i \in 1..Len(dates) |-> <<dates[i]>>])
        amount_text == JoinTop(amounts)
        listed(pattern) == JoinTop([i \in 1..Len(ExtractList(pattern, lines)) |->
                                      <<ExtractList(pattern, lines)[i]>>])
    IN  [bullet_summary |->
            << <<"Overview", line_count, word_count>>,
               <<"Document type", best.label, confidence>>,
               <<"Detailed summary", detailed_summary>>,
               <<"Keywords", keyword_text>>,
               <<"Dates detected", date_text>>,
               <<"Amounts detected", amount_text>>,
               <<"All low-confidence items reviewed by user">> >>,
         structured_fields |->
            [line_count |-> line_count,
             word_count |-> word_count,
             summary_points |-> detailed_summary,
             detailed_summary |-> detailed_summary,
             dates |-> date_text,
             amounts |-> amount_text,
             invoice_numbers |-> listed("invoice"),
             emails |-> listed("email"),
             phones |-> JoinTop([i \in 1..Len(ExtractPhones(lines)) |-> <<ExtractPhones(lines)[i]>>]),
             tax_ids |-> listed("tax"),
             document_type |-> best.label,
             document_type_confidence |-> confidence,
             keywords |-> keyword_text,
             doc_type |-> doc_type,
             locale |-> locale]]

----------------------------------------------------------------------------
(* services/summary.py: build_summary *)

\* a status check that lets a document under review through
SummaryStatuses_with_review == {"review_in_progress", "validated", "summarized"}

SummaryStatuses == {"validated", "summarized"}

\* a read that loses the text
TextOrEmpty_blank(validated_text) == <<>>

\* validated_text if validated_text is not None else ""
TextOrEmpty(validated_text) == IF validated_text = None THEN <<>> ELSE validated_text[1]

\* the two overrides passed in each other's place
Overrides_swapped(row) == [doc_type |-> row.locale, locale |-> row.doc_type]

\* doc_type_override = document.doc_type; locale_override = document.locale
Overrides(row) == [doc_type |-> row.doc_type, locale |-> row.locale]

build_summary(d, model_override, llm) ==
    /\ calls + redelivered < MaxCalls
    /\ calls' = calls + 1
    /\ LET req == [model_override |-> model_override] IN
       IF documents[d] = NoRow THEN
           Reject("build_summary", d, req, "document_not_found")
       ELSE IF documents[d].status \notin SummaryStatuses THEN
           Reject("build_summary", d, req, "document_not_validated")
       ELSE
           LET out == build_summary_from_text(TextOrEmpty(documents[d].validated_text),
                          model_override, llm,
                          Overrides(documents[d]).doc_type, Overrides(documents[d]).locale)
               structured_fields == out.structured_fields
           IN  \* first session: status; second session: fields, doc_type, locale,
               \* audit; the handler runs through both
               /\ documents' = [documents EXCEPT ![d] =
                      [@ EXCEPT
                         !.status = "summarized",
                         !.structured_fields = structured_fields,
                         !.doc_type = Some(structured_fields.doc_type),
                         !.locale = Some(structured_fields.locale)]]
               /\ audit_logs' = Append(audit_logs,
                      AuditLog(d, "summary_generated",
                               [field_count |-> Cardinality(DOMAIN structured_fields)]))
               /\ response' = Success("build_summary", d, req,
                      [bullet_summary |-> out.bullet_summary,
                       structured_fields |-> structured_fields,
                       validation_status |-> "validated"])
    /\ UNCHANGED <<tokens, corrections, queue, worker, redelivered, rules_cache, sessions>>

Models == {None, Some("llama3.1")}

LlmOutcomes == {None, Some(<<>>), Some(<<"Receipt", SP, "summary">>)}

----------------------------------------------------------------------------
(* main.py: POST /documents/{id}/fields and GET /documents/{id}/export *)

update_structured_fields(d, structured_fields) ==
    /\ calls + redelivered < MaxCalls
    /\ calls' = calls + 1
    /\ LET req == [structured_fields |-> structured_fields] IN
       IF documents[d] = NoRow THEN
           Reject("update_structured_fields", d, req, "document_not_found")
       ELSE
           /\ documents' = [documents EXCEPT ![d].structured_fields = structured_fields]
           /\ audit_logs' = Append(audit_logs,
                  AuditLog(d, "fields_updated",
                           [field_count |-> Cardinality(DOMAIN structured_fields)]))
           /\ response' = Success("update_structured_fields", d, req,
                  [structured_fields |-> structured_fields])
    /\ UNCHANGED <<tokens, corrections, queue, worker, redelivered, rules_cache, sessions>>

FieldUpdates == {EmptyMap, [vendor |-> <<"Acme">>]}

\* format.lower()
Lower(format) ==
    CASE format = "CSV" -> "csv"
      [] OTHER -> format

\* a status check that lets an exported document through
ExportStatuses_with_exported == {"validated", "summarized", "exported"}

ExportStatuses == {"validated", "summarized"}

ExportFormats == {"json", "txt", "CSV"}

export_document(d, format) ==
    /\ calls + redelivered < MaxCalls
    /\ calls' = calls + 1
    /\ LET req == [format |-> format] IN
       IF documents[d] = NoRow THEN
           Reject("export_document", d, req, "document_not_found")
       ELSE IF documents[d].status \notin ExportStatuses THEN
           Reject("export_document", d, req, "document_not_validated")
       ELSE
           /\ documents' = [documents EXCEPT ![d].status = "exported"]
           /\ audit_logs' = Append(audit_logs,
                  AuditLog(d, "exported", [format |-> Lower(format)]))
           /\ response' = Success("export_document", d, req,
                  [document_id |-> d,
                   validated_text |-> TextOrEmpty(documents[d].validated_text),
                   structured_fields |-> documents[d].structured_fields])
    /\ UNCHANGED <<tokens, corrections, queue, worker, redelivered, rules_cache, sessions>>

----------------------------------------------------------------------------

Next ==
    \/ \E d \in DocIds, dispatched \in BOOLEAN : upload_document(d, dispatched)
    \/ \E d \in DocIds : Redeliver(d)
    \/ \E d \in DocIds : process_document_start(d)
    \/ \E raw_tokens \in OcrPages : run_ocr_commit(raw_tokens)
    \/ run_ocr_audit
    \/ process_document_failed
    \/ \E d \in DocIds : \E req \in ValidateRequests(d) : apply_corrections(d, req)
    \/ \E d \in DocIds, m \in Models, llm \in LlmOutcomes : build_summary(d, m, llm)
    \/ \E d \in DocIds, f \in FieldUpdates : update_structured_fields(d, f)
    \/ \E d \in DocIds, format \in ExportFormats : export_document(d, format)

Spec == Init /\ [][Next]_vars

----------------------------------------------------------------------------
(* Properties of the API handlers *)

\* a step in which the API served one request of operation op; response' describes it
Served(op) == calls' = calls + 1 /\ response'.op = op

\* the state holds the outcome of a request of operation op
Answered(op) == response.op = op

Accepted(op) == Answered(op) /\ response.error = "none"

\* the token ids a request gives a corrected value for
CorrectedIds(req) == {req.corrections[i].token_id : i \in DOMAIN req.corrections}

\* the text a request gives a token: the corrected text if one was supplied
\* (the last one supplied), else the original text
EffectiveText(req, t) ==
    IF t.id \in CorrectedIds(req)
    THEN LET last == CHOOSE i \in DOMAIN req.corrections :
                        /\ req.corrections[i].token_id = t.id
                        /\ \A j \in DOMAIN req.corrections :
                               req.corrections[j].token_id = t.id => j <= i
         IN  req.corrections[last].corrected_text
    ELSE t.text

\* the tokens of one line in ascending token_index, joined by a single space
RECURSIVE JoinedLine(_, _)
JoinedLine(ts, req) ==
    IF ts = {} THEN <<>>
    ELSE LET t == CHOOSE u \in ts : \A v \in ts : u.token_index <= v.token_index
             rest == ts \ {t}
         IN  EffectiveText(req, t)
             \o (IF rest = {} THEN <<>> ELSE <<SP>> \o JoinedLine(rest, req))

\* the lines in ascending line_index, joined by a newline
RECURSIVE JoinedLines(_, _)
JoinedLines(ts, req) ==
    IF ts = {} THEN <<>>
    ELSE LET li == CHOOSE i \in {t.line_index : t \in ts} :
                       \A t \in ts : i <= t.line_index
             line == {t \in ts : t.line_index = li}
             rest == ts \ line
         IN  JoinedLine(line, req)
             \o (IF rest = {} THEN <<>> ELSE <<NL>> \o JoinedLines(rest, req))

LastAudit == audit_logs[Len(audit_logs)]

\* C1: a validate request with review_complete = true on an existing document
\* fails with review_incomplete exactly when some forced_review token of the
\* document is neither listed in reviewed_token_ids nor given a corrected
\* value; otherwise the request completes.
C1_ReviewIncompleteIff ==
    [][\A d \in DocIds :
          ( /\ Served("apply_corrections")
            /\ response'.document_id = d
            /\ documents[d] # NoRow
            /\ response'.request.review_complete )
          => /\ response'.error \in {"none", "review_incomplete"}
             /\ response'.error = "review_incomplete"
                <=> \E t \in tokens :
                       /\ t.document_id = d
                       /\ t.forced_review
                       /\ t.id \notin response'.request.reviewed_token_ids
                       /\ t.id \notin CorrectedIds(response'.request)]_vars

\* a completed review in which one forced token was only listed and another
\* was only corrected
C1_Witness ==
    /\ Accepted("apply_corrections")
    /\ response.request.review_complete
    /\ \E t, u \in DocTokens(response.document_id) :
          /\ t.forced_review /\ u.forced_review
          /\ t.id \notin response.request.reviewed_token_ids
          /\ t.id \in CorrectedIds(response.request)
          /\ u.id \in response.request.reviewed_token_ids
          /\ u.id \notin CorrectedIds(response.request)

\* C2: a validate request that fails (document_not_found or review_incomplete)
\* changes no document row, token, Correction row or audit entry.
C2_FailedValidateWritesNothing ==
    [][(Served("apply_corrections") /\ response'.error # "none")
          => /\ response'.error \in {"document_not_found", "review_incomplete"}
             /\ UNCHANGED <<documents, tokens, corrections, audit_logs>>]_vars

\* a rejected completion that carried a correction, and no Correction row exists
C2_Witness ==
    /\ Answered("apply_corrections")
    /\ response.error = "review_incomplete"
    /\ response.request.corrections # <<>>
    /\ corrections = <<>>
    /\ documents[response.document_id].status = "ocr_done"

\* C3: a successful validate request with review_complete = true leaves the
\* document validated with the returned validated_text stored, in the same
\* step, and returns status validated and a validated_at that is not null.
C3_CompletedReviewPersistsText ==
    [][\A d \in DocIds :
          ( /\ Served("apply_corrections")
            /\ response'.document_id = d
            /\ response'.error = "none"
            /\ response'.request.review_complete )
          => /\ documents'[d].status = "validated"
             /\ documents'[d].validated_text = Some(response'.result[1].validated_text)
             /\ response'.result[1].status = "validated"
             /\ response'.result[1].validated_at # None]_vars

C3_Witness ==
    /\ Accepted("apply_corrections")
    /\ response.request.review_complete
    /\ documents[response.document_id].status = "validated"
    /\ documents[response.document_id].validated_text
          = Some(response.result[1].validated_text)
    /\ response.result[1].validated_text # <<>>

\* C4: a successful validate request with review_complete = false leaves the
\* stored validated_text as it was, leaves the document in review_in_progress
\* (also when it already was), and returns validated_at null.
C4_PartialSaveKeepsText ==
    [][\A d \in DocIds :
          ( /\ Served("apply_corrections")
            /\ response'.document_id = d
            /\ response'.error = "none"
            /\ ~response'.request.review_complete )
          => /\ documents'[d].validated_text = documents[d].validated_text
             /\ documents'[d].status = "review_in_progress"
             /\ response'.result[1].status = "review_in_progress"
             /\ response'.result[1].validated_at = None]_vars

\* a second partial save on a document that holds a validated_text
C4_Witness ==
    /\ Accepted("apply_corrections")
    /\ ~response.request.review_complete
    /\ documents[response.document_id].status = "review_in_progress"
    /\ documents[response.document_id].validated_text # None
    /\ Cardinality({i \in DOMAIN audit_logs : audit_logs[i].event_type = "review_saved"}) >= 2

\* C5: the validated_text of a successful validate request is the lines in
\* ascending line_index joined by a newline, each line its tokens in ascending
\* token_index joined by one space, each token with its corrected text if one
\* was supplied and its original text otherwise; so corrections that repeat the
\* original texts give the text of a request without corrections.
C5_ValidatedTextAssembly ==
    [][\A d \in DocIds :
          ( /\ Served("apply_corrections")
            /\ response'.document_id = d
            /\ response'.error = "none" )
          => LET req == response'.request
                 ts == {t \in tokens : t.document_id = d}
             IN  /\ response'.result[1].validated_text = JoinedLines(ts, req)
                 /\ (\A t \in ts : EffectiveText(req, t) = t.text)
                    => response'.result[1].validated_text
                          = JoinedLines(ts, [req EXCEPT !.corrections = <<>>])]_vars

\* a two-line text produced by a request whose correction repeats the original
C5_Witness ==
    /\ Accepted("apply_corrections")
    /\ NL \in Range(response.result[1].validated_text)
    /\ \E t \in DocTokens(response.document_id) :
          /\ t.id \in CorrectedIds(response.request)
          /\ EffectiveText(response.request, t) = t.text

\* C6 as stated: no token has more than one Correction record.
C6_AtMostOneRecordPerToken ==
    \A i, j \in DOMAIN corrections :
        corrections[i].token_id = corrections[j].token_id => i = j

\* C6 amended: every successful validate request appends exactly one
\* Correction row for each token of the document it supplies a corrected value
\* for, holding the original and the corrected text even when they are equal,
\* and no row for any other token; no other step adds a row; rows are never
\* changed or removed.
C6_OneRecordPerCorrectedTokenPerCall ==
    [][/\ Len(corrections') >= Len(corrections)
       /\ SubSeq(corrections', 1, Len(corrections)) = corrections
       /\ ~(Served("apply_corrections") /\ response'.error = "none")
             => corrections' = corrections
       /\ \A d \in DocIds :
             ( /\ Served("apply_corrections")
               /\ response'.document_id = d
               /\ response'.error = "none" )
             => LET req == response'.request
                    new == SubSeq(corrections', Len(corrections) + 1, Len(corrections'))
                IN  /\ \A k \in DOMAIN new :
                          /\ new[k].document_id = d
                          /\ \E t \in tokens : t.document_id = d /\ t.id = new[k].token_id
                    /\ \A t \in {u \in tokens : u.document_id = d} :
                          LET rows == {k \in DOMAIN new : new[k].token_id = t.id}
                          IN  IF t.id \in CorrectedIds(req)
                              THEN /\ Cardinality(rows) = 1
                                   /\ \A k \in rows :
                                         /\ new[k].original_text = t.text
                                         /\ new[k].corrected_text = EffectiveText(req, t)
                              ELSE rows = {}]_vars

\* two Correction rows of one token, one of them with equal texts
C6_Witness ==
    /\ Accepted("apply_corrections")
    /\ \E i, j \in DOMAIN corrections :
          /\ i < j
          /\ corrections[i].token_id = corrections[j].token_id
          /\ corrections[j].original_text = corrections[j].corrected_text

\* C7: build_summary succeeds only on a document whose status is validated or
\* summarized; on any other status it fails with document_not_validated, on a
\* missing document with document_not_found, and a failed request changes
\* neither the document nor the audit log.
C7_SummaryPrecondition ==
    [][\A d \in DocIds :
          (Served("build_summary") /\ response'.document_id = d)
          => /\ documents[d] = NoRow => response'.error = "document_not_found"
             /\ documents[d] # NoRow =>
                   response'.error =
                       IF documents[d].status \in {"validated", "summarized"}
                       THEN "none" ELSE "document_not_validated"
             /\ response'.error # "none" =>
                   UNCHANGED <<documents, tokens, corrections, audit_logs>>]_vars

\* a summary refused on a document under review
C7_Witness ==
    /\ Answered("build_summary")
    /\ response.error = "document_not_validated"
    /\ documents[response.document_id].status = "review_in_progress"

\* C8: a successful build_summary leaves the document summarized, stores the
\* fields extracted from the validated_text it had (the fields it returns), and
\* appends exactly one summary_generated audit entry whose field_count is the
\* number of those fields.
C8_SummaryPersistsFields ==
    [][\A d \in DocIds :
          ( /\ Served("build_summary")
            /\ response'.document_id = d
            /\ response'.error = "none" )
          => LET text == IF documents[d].validated_text = None
                         THEN <<>> ELSE documents[d].validated_text[1]
                 stored == documents'[d].structured_fields
             IN  /\ documents'[d].status = "summarized"
                 /\ documents'[d].validated_text = documents[d].validated_text
                 /\ stored = response'.result[1].structured_fields
                 /\ \E llm \in LlmOutcomes :
                       stored = build_summary_from_text(text,
                                    response'.request.model_override, llm,
                                    documents[d].doc_type, documents[d].locale).structured_fields
                 /\ audit_logs' = Append(audit_logs,
                        [document_id |-> d, event_type |-> "summary_generated",
                         detail |-> [field_count |-> Cardinality(DOMAIN stored)]])]_vars

\* a summary that found an amount; its audit entry is the last one
C8_Witness ==
    /\ Accepted("build_summary")
    /\ documents[response.document_id].status = "summarized"
    /\ documents[response.document_id].structured_fields.amounts # NotDetected
    /\ documents[response.document_id].structured_fields.word_count = 2
    /\ LastAudit.event_type = "summary_generated"
    /\ LastAudit.detail.field_count = 15

\* C9: two successful build_summary requests in a row without a model
\* override return the same bullet_summary and store the same
\* structured_fields, and the document stays summarized.
C9_SummaryIdempotent ==
    [][\A d \in DocIds :
          ( /\ Accepted("build_summary")
            /\ response.document_id = d
            /\ response.request.model_override = None
            /\ Served("build_summary")
            /\ response'.document_id = d
            /\ response'.error = "none"
            /\ response'.request.model_override = None )
          => /\ documents'[d].validated_text = documents[d].validated_text
             /\ response'.result[1].bullet_summary = response.result[1].bullet_summary
             /\ response'.result[1].structured_fields = response.result[1].structured_fields
             /\ documents'[d].structured_fields = documents[d].structured_fields
             /\ documents[d].status = "summarized"
             /\ documents'[d].status = "summarized"]_vars

\* the last two audit entries are summaries, the last one without a model
C9_Witness ==
    /\ Accepted("build_summary")
    /\ response.request.model_override = None
    /\ Len(audit_logs) >= 2
    /\ LastAudit.event_type = "summary_generated"
    /\ audit_logs[Len(audit_logs) - 1].event_type = "summary_generated"
    /\ documents[response.document_id].locale = Some("EU")

\* the format an exported audit entry records for a requested format: the
\* same word in lower case
RecordedFormat(format) ==
    IF format = "CSV" THEN "csv" ELSE format

\* C10: an export of an existing document succeeds exactly when its status is
\* validated or summarized; otherwise it fails with the precondition error
\* and changes nothing; a successful export sets the status to exported and
\* appends one exported audit entry that names the requested format.
C10_ExportPrecondition ==
    [][\A d \in DocIds :
          ( /\ Served("export_document")
            /\ response'.document_id = d
            /\ documents[d] # NoRow )
          => /\ response'.error = "none"
                <=> documents[d].status \in {"validated", "summarized"}
             /\ response'.error # "none" =>
                   /\ response'.error = "document_not_validated"
                   /\ UNCHANGED <<documents, tokens, corrections, audit_logs>>
             /\ response'.error = "none" =>
                   /\ documents' = [documents EXCEPT ![d].status = "exported"]
                   /\ audit_logs' = Append(audit_logs,
                          [document_id |-> d, event_type |-> "exported",
                           detail |-> [format |->
                               RecordedFormat(response'.request.format)]])]_vars

\* an export of a summarized document as CSV
C10_Witness ==
    /\ Accepted("export_document")
    /\ response.request.format = "CSV"
    /\ documents[response.document_id].status = "exported"
    /\ Len(audit_logs) >= 2
    /\ LastAudit.event_type = "exported"
    /\ audit_logs[Len(audit_logs) - 1].event_type = "summary_generated"


----------------------------------------------------------------------------
(* Properties of the document status *)

\* the position of a status in the workflow order; failed is outside the order
StatusRank(status) ==
    CASE status = "uploaded" -> 1
      [] status = "processing" -> 2
      [] status = "ocr_done" -> 3
      [] status = "review_in_progress" -> 4
      [] status = "validated" -> 5
      [] status = "summarized" -> 6
      [] status = "exported" -> 7
      [] OTHER -> 0

Ordered(status) == StatusRank(status) > 0

\* a step of the OCR task: the only steps that may reset a status
ReOcrStep == worker' # worker

\* C11: the status of a document never moves backwards in the order uploaded,
\* processing, ocr_done, review_in_progress, validated, summarized, exported,
\* except for the reset to processing / ocr_done by a re-run of OCR; in
\* particular no API request lowers the status of a validated, summarized or
\* exported document.
C11_StatusNeverMovesBackwards ==
    [][\A d \in DocIds :
          (/\ documents[d] # NoRow
           /\ Ordered(documents[d].status)
           /\ Ordered(documents'[d].status)
           /\ StatusRank(documents'[d].status) < StatusRank(documents[d].status))
          => (ReOcrStep /\ documents'[d].status \in {"processing", "ocr_done"})]_vars

\* the status changes the validation service is specified to make
ValidationTransitions ==
    { <<"ocr_done", "review_in_progress">>,
      <<"review_in_progress", "review_in_progress">>,
      <<"ocr_done", "validated">>,
      <<"review_in_progress", "validated">> }

\* the statuses of a document whose OCR has not completed
OcrNotCompleted == {"uploaded", "processing", "failed"}

\* C12: apply_corrections changes the status only along ocr_done ->
\* review_in_progress, review_in_progress -> review_in_progress and
\* ocr_done / review_in_progress -> validated; a document whose OCR has not
\* completed is never moved to review_in_progress or validated; failed is
\* entered only from processing.
C12_ValidationTransitionsOnly ==
    [][\A d \in DocIds :
          documents[d] # NoRow /\ documents'[d].status # documents[d].status =>
            /\ Served("apply_corrections") =>
                 <<documents[d].status, documents'[d].status>> \in ValidationTransitions
            /\ documents[d].status \in OcrNotCompleted =>
                 documents'[d].status \notin {"review_in_progress", "validated"}
            /\ documents'[d].status = "failed" =>
                 documents[d].status = "processing"]_vars

\* the statuses from a completed review onwards
ValidatedOrLater == {"validated", "summarized", "exported"}

\* C13: in every reachable state the stored validated_text of a document is
\* present exactly when its status is validated, summarized or exported.
C13_TextPresentIffValidated ==
    \A d \in DocIds :
        documents[d] # NoRow =>
            (documents[d].validated_text # None
                <=> documents[d].status \in ValidatedOrLater)

\* C14: in every reachable state the structured_fields of a document are
\* non-empty exactly when its status is summarized or exported.
C14_FieldsIffSummarized ==
    \A d \in DocIds :
        documents[d] # NoRow =>
            (documents[d].structured_fields # EmptyMap
                <=> documents[d].status \in {"summarized", "exported"})

----------------------------------------------------------------------------
(* Properties of the OCR task *)

\* the token rows one OCR run writes for a page
OcrRows(d, raw_tokens) ==
    LET grouped_tokens == line_group_tokens(raw_tokens)
    IN  {TokenRow(d, grouped_tokens[i]) : i \in 1..Len(grouped_tokens)}

\* the step in which the OCR task commits its tokens
OcrCommitted == worker.pc = "ocr" /\ worker'.pc = "audit"

\* an ocr_completed entry of an earlier run of the task
CompletedBefore(d) ==
    {i \in DOMAIN audit_logs :
        /\ audit_logs[i].document_id = d
        /\ audit_logs[i].event_type = "ocr_completed"}

\* C18: a re-delivered process_document is safe: whatever tokens an earlier run
\* left, the commit of a run leaves exactly the rows of that run's OCR output
\* (ids, indices, labels, flags) and status ocr_done, so a run that repeats the
\* output of the previous one leaves the token set as it was; tokens are
\* overwritten, never accumulated.
C18_RedeliveryOverwritesTokens ==
    [][OcrCommitted =>
          LET d == worker.document_id IN
          /\ documents'[d].status = "ocr_done"
          /\ \E raw_tokens \in OcrPages :
                /\ DocTokens(d)' = OcrRows(d, raw_tokens)
                /\ worker'.token_count = Cardinality(OcrRows(d, raw_tokens))
                /\ DocTokens(d) = OcrRows(d, raw_tokens) => tokens' = tokens]_vars

\* a second run has committed the same non-empty page as the first
C18_Witness ==
    /\ worker.pc = "audit"
    /\ documents[worker.document_id].status = "ocr_done"
    /\ DocTokens(worker.document_id) = OcrRows(worker.document_id, PageReceipt)
    /\ \E i \in CompletedBefore(worker.document_id) :
           audit_logs[i].detail.token_count = worker.token_count

\* the step in which the OCR of a started task raises
OcrRaised == worker.pc = "ocr" /\ worker'.pc = "idle"

----------------------------------------------------------------------------
(* Properties of the summary with a model override *)

\* the outcomes of an LLM call that failed on every attempt: an HTTP error or
\* an exception, and an empty response
LlmFailures == {None, Some(<<>>)}

\* what build_summary computes for a document without a model override
OfflineSummary(d) ==
    build_summary_from_text(TextOrEmpty(documents[d].validated_text), None, None,
        Overrides(documents[d]).doc_type, Overrides(documents[d]).locale)

\* C20: an LLM call that fails on every attempt (HTTP error, empty response,
\* exception) never makes build_summary fail: on a validated or summarized
\* document the request succeeds, and the bullet_summary and structured_fields
\* it returns and stores are those of the deterministic path for the same
\* text without a model override.
C20_LlmFailureFallsBack ==
    [][\A d \in DocIds, m \in Models \ {None}, llm \in LlmFailures :
          ( /\ documents[d] # NoRow
            /\ documents[d].status \in SummaryStatuses
            /\ build_summary(d, m, llm) )
          => /\ response'.error = "none"
             /\ response'.result[1].bullet_summary = OfflineSummary(d).bullet_summary
             /\ response'.result[1].structured_fields = OfflineSummary(d).structured_fields
             /\ documents'[d].structured_fields = OfflineSummary(d).structured_fields
             /\ documents'[d].status = "summarized"]_vars

\* a summary requested with a model came back with the offline summary of a
\* non-empty text
C20_Witness ==
    /\ Accepted("build_summary")
    /\ response.request.model_override # None
    /\ documents[response.document_id].validated_text \notin {None, Some(<<>>)}
    /\ response.result[1].structured_fields.detailed_summary
         = build_detailed_summary(
               SplitLines(documents[response.document_id].validated_text[1]))
    /\ response.result[1].structured_fields.detailed_summary # NoTextDetected

----------------------------------------------------------------------------
(* The API in several processes: a handler is one step for each of its      *)
(* database sessions.  A session reads with autocommit SELECTs and holds    *)
(* the database's write lock from its first UPDATE to its commit, so the    *)
(* writes of one session are one step.                                      *)

\* the row an UPDATE leaves its unnamed columns from: the stored one
StoredRow_as_read(stored, document) == document

\* the row an UPDATE leaves its unnamed columns from: the stored one, not the
\* Document object the session loaded before
StoredRow(stored, document) == stored

\* validation.py:25-44: load the document and the tokens, check completeness
apply_corrections_read(p, d, req) ==
    /\ sessions[p] = Idle
    /\ calls + redelivered < MaxCalls
    /\ calls' = calls + 1
    /\ IF documents[d] = NoRow THEN
           /\ Reject("apply_corrections", d, req, "document_not_found")
           /\ UNCHANGED sessions
       ELSE IF req.review_complete /\ Missing(d, req) # {} THEN
           /\ Reject("apply_corrections", d, req, "review_incomplete")
           /\ UNCHANGED sessions
       ELSE
           /\ sessions' = [sessions EXCEPT ![p] =
                  [pc |-> "validate", document_id |-> d, request |-> req,
                   document |-> documents[d],
                   tokens |-> OrderTokens(DocTokens(d))]]
           /\ UNCHANGED <<documents, corrections, audit_logs, response>>
    /\ UNCHANGED <<tokens, queue, worker, redelivered, rules_cache>>

\* validation.py:46-135: the Correction rows, the UPDATE, the audit entries, commit
apply_corrections_commit(p) ==
    /\ sessions[p].pc = "validate"
    /\ LET d == sessions[p].document_id
           req == sessions[p].request
           by_token == corrections_by_token(req.corrections)
           ordered == sessions[p].tokens
           validated_text == ValidatedText(ordered, by_token)
           status_value == StatusValue(req.review_complete)
           validated_at == ValidatedAt(req.review_complete)
           stored == StoredRow(documents[d], sessions[p].document)
       IN  /\ corrections' = corrections \o NewCorrections(d, ordered, by_token)
           /\ documents' = [documents EXCEPT ![d] =
                  [stored EXCEPT
                     !.status = status_value,
                     !.validated_text =
                         PersistedText(req.review_complete, validated_text, @),
                     !.structured_fields =
                         IF req.structured_fields # None
                         THEN req.structured_fields[1] ELSE @]]
           /\ audit_logs' = audit_logs \o ValidationAudit(d, req)
           /\ response' = Success("apply_corrections", d, req,
                  [validated_text |-> validated_text,
                   status |-> status_value,
                   validated_at |-> validated_at])
    /\ sessions' = [sessions EXCEPT ![p] = Idle]
    /\ UNCHANGED <<tokens, queue, worker, redelivered, rules_cache, calls>>

\* summary.py:442-465: first session of build_summary: the checks, the reads,
\* status := summarized, commit
build_summary_begin(p, d, model_override) ==
    /\ sessions[p] = Idle
    /\ calls + redelivered < MaxCalls
    /\ calls' = calls + 1
    /\ LET req == [model_override |-> model_override] IN
       IF documents[d] = NoRow THEN
           /\ Reject("build_summary", d, req, "document_not_found")
           /\ UNCHANGED sessions
       ELSE IF documents[d].status \notin SummaryStatuses THEN
           /\ Reject("build_summary", d, req, "document_not_validated")
           /\ UNCHANGED sessions
       ELSE
           /\ documents' = [documents EXCEPT ![d].status = "summarized"]
           /\ sessions' = [sessions EXCEPT ![p] =
                  [pc |-> "summary", document_id |-> d, request |-> req,
                   validated_text |-> TextOrEmpty(documents[d].validated_text),
                   doc_type_override |-> Overrides(documents[d]).doc_type,
                   locale_override |-> Overrides(documents[d]).locale]]
           /\ UNCHANGED <<corrections, audit_logs, response>>
    /\ UNCHANGED <<tokens, queue, worker, redelivered, rules_cache>>

\* summary.py:467-492: the extraction, then the second session: fields,
\* doc_type, locale, the summary_generated entry, commit
build_summary_finish(p, llm) ==
    /\ sessions[p].pc = "summary"
    /\ LET d == sessions[p].document_id
           out == build_summary_from_text(sessions[p].validated_text,
                      sessions[p].request.model_override, llm,
                      sessions[p].doc_type_override, sessions[p].locale_override)
           structured_fields == out.structured_fields
       IN  /\ documents' = [documents EXCEPT ![d] =
                  [@ EXCEPT
                     !.structured_fields = structured_fields,
                     !.doc_type = Some(structured_fields.doc_type),
                     !.locale = Some(structured_fields.locale)]]
           /\ audit_logs' = Append(audit_logs,
                  AuditLog(d, "summary_generated",
                           [field_count |-> Cardinality(DOMAIN structured_fields)]))
           /\ response' = Success("build_summary", d, sessions[p].request,
                  [bullet_summary |-> out.bullet_summary,
                   structured_fields |-> structured_fields,
                   validation_status |-> "validated"])
    /\ sessions' = [sessions EXCEPT ![p] = Idle]
    /\ UNCHANGED <<tokens, corrections, queue, worker, redelivered, rules_cache, calls>>

\* summary.py:467-472: the process stops between the two sessions (the
\* extraction raises, or the server is restarted during the LLM call)
build_summary_stopped(p) ==
    /\ sessions[p].pc = "summary"
    /\ response' = Failure("build_summary", sessions[p].document_id,
                           sessions[p].request, "internal_error")
    /\ sessions' = [sessions EXCEPT ![p] = Idle]
    /\ UNCHANGED <<documents, tokens, corrections, audit_logs, queue, worker,
                   redelivered, rules_cache, calls>>

\* the validate requests of this specification: nothing or everything reviewed
SessionRequests(d) ==
    {req \in ValidateRequests(d) :
        req.reviewed_token_ids \in {{}, {t.id : t \in DocTokens(d)}}}

NextSessions ==
    \/ \E d \in DocIds, dispatched \in BOOLEAN : upload_document(d, dispatched)
    \/ \E d \in DocIds : process_document_start(d)
    \/ run_ocr_commit(PageReceipt)
    \/ run_ocr_audit
    \/ process_document_failed
    \/ \E p \in ApiProcs, d \in DocIds : \E req \in SessionRequests(d) :
          apply_corrections_read(p, d, req)
    \/ \E p \in ApiProcs : apply_corrections_commit(p)
    \/ \E p \in ApiProcs, d \in DocIds, m \in Models : build_summary_begin(p, d, m)
    \/ \E p \in ApiProcs, llm \in LlmOutcomes : build_summary_finish(p, llm)
    \/ \E p \in ApiProcs : build_summary_stopped(p)
    \/ \E d \in DocIds : export_document(d, "json")

SpecSessions == Init /\ [][NextSessions]_vars

----------------------------------------------------------------------------
(* Properties of the sessions *)

\* the audit entries of a document with an event type
AuditEntries(d, event_type) ==
    {i \in DOMAIN audit_logs :
        /\ audit_logs[i].document_id = d
        /\ audit_logs[i].event_type = event_type}

\* a summarized document has its structured_fields and its summary_generated entry
SummaryWritesTogether ==
    \A d \in DocIds :
        documents[d].status = "summarized" =>
            /\ documents[d].structured_fields # EmptyMap
            /\ AuditEntries(d, "summary_generated") # {}

\* a document in ocr_done has the ocr_completed entry of its tokens
OcrWritesTogether ==
    \A d \in DocIds :
        documents[d].status = "ocr_done" =>
            \E i \in AuditEntries(d, "ocr_completed") :
                audit_logs[i].detail.token_count = Cardinality(DocTokens(d))

\* C15: the writes of one logical operation are atomic: no state that another
\* operation can observe (or that a failure leaves behind) has status
\* summarized without the structured_fields and the summary_generated audit
\* entry of the summarization, or the tokens and status ocr_done of an OCR
\* commit without its ocr_completed audit entry.
C15_OperationWritesAtomic == SummaryWritesTogether /\ OcrWritesTogether

\* the calls of apply_corrections that have read and not yet committed
Validating(d) ==
    {p \in ApiProcs : sessions[p].pc = "validate" /\ sessions[p].document_id = d}

RowAfter(row, d, req) ==
    [row EXCEPT
       !.status = StatusValue(req.review_complete),
       !.validated_text =
           PersistedText(req.review_complete,
               ValidatedText(OrderTokens(DocTokens(d)),
                             corrections_by_token(req.corrections)), @),
       !.structured_fields =
           IF req.structured_fields # None THEN req.structured_fields[1] ELSE @]

\* the step in which process p commits its call of apply_corrections
ValidationCommitted(p) == sessions[p].pc = "validate" /\ sessions'[p] = Idle

----------------------------------------------------------------------------
(* The task in a pool of worker processes: worker.py configures no          *)
(* concurrency limit and no lock, so every process of the pool takes the    *)
(* next delivery of vera.process_document whatever the others are running.  *)

\* worker.py:46-57 in process p: status := processing, commit
pool_process_document_start(p, d) ==
    /\ sessions[p] = Idle
    /\ d \in queue
    /\ documents[d] # NoRow
    /\ queue' = queue \ {d}
    /\ documents' = [documents EXCEPT ![d].status = "processing"]
    /\ sessions' = [sessions EXCEPT ![p] = [pc |-> "ocr", document_id |-> d]]
    /\ UNCHANGED <<tokens, corrections, audit_logs, worker, redelivered, rules_cache, calls, response>>

\* ocr.py:115-171 in process p: replace the tokens, status := ocr_done, commit
pool_run_ocr_commit(p, raw_tokens) ==
    /\ sessions[p].pc = "ocr"
    /\ LET d == sessions[p].document_id
           grouped_tokens == line_group_tokens(raw_tokens)
           rows == {TokenRow(d, grouped_tokens[i]) : i \in 1..Len(grouped_tokens)}
       IN  /\ tokens' = {t \in tokens : t.document_id # d} \cup rows
           /\ documents' = [documents EXCEPT ![d].status = "ocr_done"]
           /\ sessions' = [sessions EXCEPT ![p] =
                  [pc |-> "audit", document_id |-> d,
                   token_count |-> Len(grouped_tokens)]]
    /\ UNCHANGED <<corrections, audit_logs, queue, worker, redelivered, rules_cache, calls, response>>

\* ocr.py:173-182 in process p: the ocr_completed audit entry
pool_run_ocr_audit(p) ==
    /\ sessions[p].pc = "audit"
    /\ audit_logs' = Append(audit_logs,
            AuditLog(sessions[p].document_id, "ocr_completed",
                     [token_count |-> sessions[p].token_count]))
    /\ sessions' = [sessions EXCEPT ![p] = Idle]
    /\ UNCHANGED <<documents, tokens, corrections, queue, worker, redelivered, rules_cache, calls,
                   response>>

\* worker.py:63-79 in process p: the except branch of process_document
pool_process_document_failed(p) ==
    /\ sessions[p].pc = "ocr"
    /\ documents' = [documents EXCEPT ![sessions[p].document_id].status = "failed"]
    /\ audit_logs' = Append(audit_logs,
            AuditLog(sessions[p].document_id, "ocr_failed", [error |-> "ocr_failed"]))
    /\ sessions' = [sessions EXCEPT ![p] = Idle]
    /\ UNCHANGED <<tokens, corrections, queue, worker, redelivered, rules_cache, calls, response>>

NextPool ==
    \/ \E d \in DocIds, dispatched \in BOOLEAN : upload_document(d, dispatched)
    \/ \E d \in DocIds : Redeliver(d)
    \/ \E p \in PoolProcs, d \in DocIds : pool_process_document_start(p, d)
    \/ \E p \in PoolProcs, raw_tokens \in OcrPages : pool_run_ocr_commit(p, raw_tokens)
    \/ \E p \in PoolProcs : pool_run_ocr_audit(p)
    \/ \E p \in PoolProcs : pool_process_document_failed(p)

SpecPool == Init /\ [][NextPool]_vars

\* the processes of the pool that are inside a run of the task for a document
OcrRunning(d) ==
    {p \in PoolProcs :
        sessions[p].pc \in {"ocr", "audit"} /\ sessions[p].document_id = d}

\* C17: no two OCR jobs for the same document run at the same time, so that
\* the delete-and-regenerate steps of two runs never overlap and the tokens
\* are always the output of a single run.
C17_OneOcrJobPerDocument ==
    \A d \in DocIds : Cardinality(OcrRunning(d)) <= 1

----------------------------------------------------------------------------
(* The pure functions of the services, each applied once to an input drawn  *)
(* from a bounded set.  response holds the call: its input in request and,  *)
(* after the step, its output in result.                                    *)

Input(fn, request) == [op |-> "none", fn |-> fn, request |-> request]

Output(fn, request, result) == [op |-> fn, request |-> request, result |-> result]

\* confidence scores in hundredths: 0.00 .. 1.00
Scores == 0..100

ConfidenceInputs == {Input("classify_confidence", score) : score \in Scores}

call_classify_confidence ==
    /\ response.op = "none"
    /\ response.fn = "classify_confidence"
    /\ response' = Output("classify_confidence", response.request,
                          classify_confidence(response.request))
    /\ UNCHANGED <<documents, tokens, corrections, audit_logs, queue, worker,
                   redelivered, rules_cache, calls, sessions>>

\* the call of a function has returned
Returned(fn) == response.op = fn

\* C22: for every confidence score s, classify_confidence(s) is trusted iff
\* s >= 0.92, medium iff 0.80 <= s < 0.92, and low iff s < 0.80.
C22_ConfidenceTiers ==
    Returned("classify_confidence") =>
        LET s == response.request
            tier == response.result
        IN  /\ tier = "trusted" <=> s >= 92
            /\ tier = "medium" <=> (80 <= s /\ s < 92)
            /\ tier = "low" <=> s < 80

\* the two thresholds themselves have been classified
C22_Witness ==
    /\ Returned("classify_confidence")
    /\ \/ response.request = 92 /\ response.result = "trusted"
       \/ response.request = 80 /\ response.result = "medium"

----------------------------------------------------------------------------
(* services/summary.py: the attempts of fetch_llm_detailed_summary *)

\* what one POST to the LLM server can come to: an exception, or a response
\* with a status and the stripped "response" text of its body
Raised == [kind |-> "exception", status_code |-> 0, text |-> <<>>]
Response(status_code, text) == [kind |-> "response", status_code |-> status_code, text |-> text]

AttemptOutcomes ==
    { Raised,
      Response(500, <<>>),
      Response(404, <<"Receipt", SP, "summary">>),
      Response(200, <<>>),
      Response(200, <<"Receipt", SP, "summary">>) }

\* the largest OLLAMA_RETRIES of the model
MaxRetries == 2

HTTP_ERROR == 400

\* last_error of one failed attempt
AttemptError(outcome) ==
    IF outcome.kind = "exception" THEN <<"exception">>
    ELSE IF outcome.status_code >= HTTP_ERROR THEN <<"http", outcome.status_code>>
    ELSE <<"empty_response">>

\* a loop that counts every failed attempt
RECURSIVE AttemptLoop_counts_each(_, _, _, _)
AttemptLoop_counts_each(outcomes, attempt, retries, failures) ==
    IF attempt > retries THEN
        [result |-> None, attempts |-> attempt, failures |-> failures]
    ELSE
        LET outcome == outcomes[attempt + 1]
        IN  IF /\ outcome.kind = "response"
               /\ outcome.status_code < HTTP_ERROR
               /\ outcome.text # <<>>
            THEN [result |-> Some(outcome.text), attempts |-> attempt + 1,
                  failures |-> failures]
            ELSE AttemptLoop_counts_each(outcomes, attempt + 1, retries,
                     Append(failures, AttemptError(outcome)))

\* for attempt in range(retries + 1): return the first non-empty response
\* text; after the last attempt SUMMARY_LLM_FAILURES.labels(last_error or
\* "unknown").inc() and return None.  last_error is a sequence of length at
\* most one; failures lists the labels the counter was incremented with.
RECURSIVE AttemptLoop(_, _, _, _)
AttemptLoop(outcomes, attempt, retries, last_error) ==
    IF attempt > retries THEN
        [result |-> None, attempts |-> attempt,
         failures |-> IF last_error # <<>> THEN last_error ELSE << <<"unknown">> >>]
    ELSE
        LET outcome == outcomes[attempt + 1]
        IN  IF /\ outcome.kind = "response"
               /\ outcome.status_code < HTTP_ERROR
               /\ outcome.text # <<>>
            THEN [result |-> Some(outcome.text), attempts |-> attempt + 1,
                  failures |-> <<>>]
            ELSE AttemptLoop(outcomes, attempt + 1, retries, <<AttemptError(outcome)>>)

LlmInputs ==
    {Input("fetch_llm_detailed_summary", [retries |-> retries, outcomes |-> outcomes]) :
        <<retries, outcomes>> \in
            UNION {{r} \X [1..(r + 1) -> AttemptOutcomes] : r \in 0..MaxRetries}}

call_fetch_llm_detailed_summary ==
    /\ response.op = "none"
    /\ response.fn = "fetch_llm_detailed_summary"
    /\ response' = Output("fetch_llm_detailed_summary", response.request,
                          AttemptLoop(response.request.outcomes, 0,
                                      response.request.retries, <<>>))
    /\ UNCHANGED <<documents, tokens, corrections, audit_logs, queue, worker,
                   redelivered, rules_cache, calls, sessions>>

\* the attempt succeeds: a response below status 400 with a non-empty text
Succeeds(outcome) ==
    outcome.kind = "response" /\ outcome.status_code < 400 /\ outcome.text # <<>>

\* the reason of a failed attempt: http_<status>, empty_response or exception
Reason(outcome) ==
    CASE outcome.kind = "exception" -> <<"exception">>
      [] outcome.kind = "response" /\ outcome.status_code >= 400 ->
             <<"http", outcome.status_code>>
      [] OTHER -> <<"empty_response">>

\* C21: one LLM summary invocation makes at most retries + 1 attempts and
\* then terminates; it stops at the first attempt that returns a non-empty
\* response; if every attempt fails the failure counter is incremented
\* exactly once, labelled with the reason of the last attempt, and it is not
\* incremented when some attempt succeeds.
C21_BoundedAttempts ==
    Returned("fetch_llm_detailed_summary") =>
        LET outcomes == response.request.outcomes
            retries == response.request.retries
            out == response.result
            succeeded == {i \in 1..(retries + 1) : Succeeds(outcomes[i])}
        IN  /\ out.attempts <= retries + 1
            /\ succeeded # {} =>
                 /\ out.attempts \in succeeded
                 /\ \A i \in succeeded : out.attempts <= i
                 /\ out.result = Some(outcomes[out.attempts].text)
                 /\ out.failures = <<>>
            /\ succeeded = {} =>
                 /\ out.attempts = retries + 1
                 /\ out.result = None
                 /\ out.failures = <<Reason(outcomes[retries + 1])>>

\* three attempts were made: two failed for different reasons and either the
\* third returned the text, or it failed too and was the one counted
C21_Witness ==
    /\ Returned("fetch_llm_detailed_summary")
    /\ response.request.retries = 2
    /\ response.result.attempts = 3
    /\ response.request.outcomes[1] = Raised
    /\ response.request.outcomes[2] = Response(500, <<>>)
    /\ \/ response.result.result # None /\ response.result.failures = <<>>
       \/ response.result.failures = << <<"empty_response">> >>

----------------------------------------------------------------------------
(* The review flag and the tier of the stored tokens *)

\* the tier of a stored confidence
Tier(confidence) ==
    CASE confidence >= 92 -> "trusted"
      [] confidence >= 80 /\ confidence < 92 -> "medium"
      [] OTHER -> "low"

\* C23: every token persisted by an OCR run has forced_review exactly when
\* its confidence tier is not trusted or detect_forced_flags returned at
\* least one flag for its raw text, and its stored confidence_label is
\* classify_confidence of its stored confidence.
C23_ForcedReviewIffUntrustedOrFlagged ==
    \A t \in tokens :
        /\ t.forced_review <=>
               (Tier(t.confidence) # "trusted" \/ detect_forced_flags(t.text) # <<>>)
        /\ t.confidence_label = classify_confidence(t.confidence)
        /\ t.confidence_label = Tier(t.confidence)

\* a page is stored with a trusted token without flags, which needs no
\* review, and a trusted token with a flag, which does
C23_Witness ==
    /\ \E t \in tokens :
          /\ t.confidence_label = "trusted"
          /\ detect_forced_flags(t.text) = <<>>
          /\ ~t.forced_review
    /\ \E t \in tokens :
          /\ t.confidence_label = "trusted"
          /\ detect_forced_flags(t.text) # <<>>
          /\ t.forced_review

----------------------------------------------------------------------------
(* The token rows after the OCR commit *)

\* C26: tokens are immutable after the OCR commit: apply_corrections,
\* build_summary, the fields update and the export (no request of the API)
\* create, modify or delete a Token row; the tokens of a document change
\* only in the commit of an OCR run, which deletes and regenerates them.
C26_TokensImmutableAfterOcr ==
    [][ /\ calls' = calls + 1 => tokens' = tokens
        /\ tokens' # tokens =>
              /\ OcrCommitted
              /\ \E raw_tokens \in OcrPages :
                    LET d == worker.document_id
                    IN  tokens' = {t \in tokens : t.document_id # d}
                                      \cup OcrRows(d, raw_tokens) ]_vars

\* a validation stored a correction with a new text for a token, and the
\* token row still holds the text the OCR run gave it
C26_Witness ==
    /\ Accepted("apply_corrections")
    /\ \E i \in DOMAIN corrections : \E t \in tokens :
          /\ corrections[i].token_id = t.id
          /\ corrections[i].corrected_text # t.text
          /\ corrections[i].original_text = t.text

----------------------------------------------------------------------------
(* services/ocr.py: _line_group_tokens applied to lists of raw tokens *)

\* the longest list of raw tokens
MaxTokens == 4

\* left x and top y of the boxes: two columns; rows 12 and 5 apart, so that
\* a row is within the threshold of a running mean but not of the row before
TokenXs == {0, 50}
TokenYs == {0, 12, 17, 30}

RawTokens == {RawToken(<<"Total">>, 95, x, y) : x \in TokenXs, y \in TokenYs}

GroupInputs ==
    {Input("line_group_tokens", raw_tokens) :
        raw_tokens \in UNION {[1..n -> RawTokens] : n \in 0..MaxTokens}}

call_line_group_tokens ==
    /\ response.op = "none"
    /\ response.fn = "line_group_tokens"
    /\ response' = Output("line_group_tokens", response.request,
                          line_group_tokens(response.request))
    /\ UNCHANGED <<documents, tokens, corrections, audit_logs, queue, worker,
                   redelivered, rules_cache, calls, sessions>>

\* the grouper applied to the list it returned
call_line_group_tokens_again ==
    /\ response.op = "line_group_tokens"
    /\ response' = Output("line_group_tokens_again", response.result,
                          line_group_tokens(response.result))
    /\ UNCHANGED <<documents, tokens, corrections, audit_logs, queue, worker,
                   redelivered, rules_cache, calls, sessions>>

\* what the OCR engine gave for a token
RawOf(t) == [text |-> t.text, confidence |-> t.confidence, bbox |-> t.bbox]

\* how often a raw token occurs in a list
Occurrences(s, raw) == Cardinality({i \in DOMAIN s : RawOf(s[i]) = raw})

\* C24: for any list of raw tokens the line grouper returns every input
\* token exactly once, with a (line_index, token_index) pair no other token
\* has; line indices are contiguous from 0 and token indices contiguous from
\* 0 within each line; the output is ordered by line, then by token, and the
\* tokens of a line by non-decreasing left x; empty input gives empty output.
C24_GrouperIndexesEveryToken ==
    Returned("line_group_tokens") =>
        LET in == response.request
            out == response.result
            line_indices == {out[i].line_index : i \in DOMAIN out}
            token_indices(l) ==
                {out[i].token_index : i \in {j \in DOMAIN out : out[j].line_index = l}}
        IN  /\ Len(out) = Len(in)
            /\ \A raw \in RawTokens : Occurrences(out, raw) = Occurrences(in, raw)
            /\ \A i, j \in DOMAIN out :
                  i # j => <<out[i].line_index, out[i].token_index>>
                               # <<out[j].line_index, out[j].token_index>>
            /\ line_indices = 0..(Cardinality(line_indices) - 1)
            /\ \A l \in line_indices :
                  token_indices(l) = 0..(Cardinality(token_indices(l)) - 1)
            /\ \A i, j \in DOMAIN out :
                  i < j =>
                     /\ \/ out[i].line_index < out[j].line_index
                        \/ /\ out[i].line_index = out[j].line_index
                           /\ out[i].token_index < out[j].token_index
                     /\ out[i].line_index = out[j].line_index =>
                            out[i].bbox[1] <= out[j].bbox[1]
            /\ in = <<>> => out = <<>>

\* four tokens given right column first and bottom row first come back as
\* two lines of two tokens, each line left to right
C24_Witness ==
    /\ Returned("line_group_tokens")
    /\ Len(response.request) = 4
    /\ response.request[1].bbox[2] > response.request[4].bbox[2]
    /\ response.request[1].bbox[1] > response.request[2].bbox[1]
    /\ \E i, j \in DOMAIN response.result :
          /\ response.result[i].line_index = 0 /\ response.result[i].token_index = 1
          /\ response.result[j].line_index = 1 /\ response.result[j].token_index = 1

\* the lines of a list are well separated: tokens of one line are within the
\* threshold of each other, tokens of distinct lines farther apart
WellSeparated(s) ==
    \A i, j \in DOMAIN s :
        (s[i].line_index = s[j].line_index)
            <=> (Abs(s[i].bbox[2] - s[j].bbox[2]) <= 12)

\* C25: line grouping is idempotent on already-sorted, well-separated input:
\* applied to its own output it gives every token the same line_index,
\* token_index and line_id as the first application.
C25_GroupingIdempotent ==
    Returned("line_group_tokens_again") =>
        LET first == response.request
            second == response.result
        IN  /\ Len(second) = Len(first)
            /\ \A i \in DOMAIN first :
                  /\ RawOf(second[i]) = RawOf(first[i])
                  /\ second[i].line_index = first[i].line_index
                  /\ second[i].token_index = first[i].token_index
                  /\ second[i].line_id = first[i].line_id

\* the grouper was applied a second time to two well-separated lines of two
\* tokens each
C25_Witness ==
    /\ Returned("line_group_tokens_again")
    /\ WellSeparated(response.request)
    /\ Len(response.request) = 4
    /\ response.request[2].line_index = 0 /\ response.request[2].token_index = 1
    /\ response.request[4].line_index = 1 /\ response.request[4].token_index = 1
    /\ response.request[1].bbox[2] # response.request[2].bbox[2]

\* the running means of the property are held in sixteenths, which is exact
\* for the means of lines of up to five tokens
Sixteenths(y) == 16 * y

\* The line number of each token of a sweep: a token joins the current line
\* iff its top is within 12 of the running mean, which then becomes the mean
\* of itself and the top; otherwise it starts the next line and is its mean.
RECURSIVE SweepLineNumbers(_, _, _, _)
SweepLineNumbers(tops, mean, line, numbers) ==
    IF tops = <<>> THEN numbers
    ELSE
        LET top == Sixteenths(Head(tops))
        IN  IF numbers = <<>> THEN
                SweepLineNumbers(Tail(tops), top, 0, <<0>>)
            ELSE IF Abs(top - mean) <= Sixteenths(12) THEN
                SweepLineNumbers(Tail(tops), (mean + top) \div 2, line,
                                 Append(numbers, line))
            ELSE
                SweepLineNumbers(Tail(tops), top, line + 1,
                                 Append(numbers, line + 1))

\* C27: in the sweep over the tokens sorted by (top_y, left_x) a token joins
\* the current line iff |top_y - running_mean| <= 12, where the running mean
\* starts at the first token's top_y and after each joined token becomes
\* (old_mean + top_y) / 2, not the true mean of the line; otherwise the line
\* is closed and the token starts a new line whose mean is its own top_y.
C27_RunningMeanJoinsLines ==
    Returned("line_group_tokens") =>
        LET sweep == sorted(response.request, "yx")
            numbers == SweepLineNumbers([i \in DOMAIN sweep |-> sweep[i].bbox[2]],
                                        0, 0, <<>>)
            out == response.result
        IN  \A raw \in RawTokens : \A l \in 0..MaxTokens :
                Cardinality({i \in DOMAIN out :
                                RawOf(out[i]) = raw /\ out[i].line_index = l})
                    = Cardinality({j \in DOMAIN sweep :
                                RawOf(sweep[j]) = raw /\ numbers[j] = l})

\* tops 0, 0, 12, 17 are one line: the running mean before the last token is
\* 6, its distance 11, while the true mean 4 is 13 away
C27_Witness ==
    /\ Returned("line_group_tokens")
    /\ [i \in DOMAIN response.request |-> response.request[i].bbox[2]] = <<0, 0, 12, 17>>
    /\ \A i \in DOMAIN response.result : response.result[i].line_index = 0

----------------------------------------------------------------------------
(* Validations that supply structured fields *)

\* the structured_fields argument of apply_corrections: None, {} or a field
SuppliedFields == {None} \cup {Some(f) : f \in FieldUpdates}

\* the reviewer has marked no token or every token
FieldRequests(d) ==
    [corrections : SeqsUpTo(CorrectionItems(d), MaxCorrections),
     reviewed_token_ids : {{}, {t.id : t \in DocTokens(d)}},
     review_complete : BOOLEAN,
     structured_fields : SuppliedFields]

NextFields ==
    \/ \E d \in DocIds : upload_document(d, TRUE)
    \/ \E d \in DocIds : process_document_start(d)
    \/ run_ocr_commit(PageReceipt)
    \/ run_ocr_audit
    \/ \E d \in DocIds : \E req \in FieldRequests(d) : apply_corrections(d, req)
    \/ \E d \in DocIds, f \in FieldUpdates : update_structured_fields(d, f)

SpecFields == Init /\ [][NextFields]_vars

\* the entries of a part of the audit log that have the event type
EntriesOf(entries, event_type) ==
    Cardinality({i \in DOMAIN entries : entries[i].event_type = event_type})

\* C28: each successful apply_corrections appends exactly: one
\* corrections_applied entry iff at least one correction was supplied, one
\* review event entry (review_completed if review_complete, else
\* review_saved), and one fields_updated entry iff structured_fields was
\* supplied; supplied structured_fields overwrite the document's in the
\* complete and in the partial-save branch, and without them the document's
\* structured fields are left unchanged.
C28_ValidationAuditEntries ==
    [][ (Served("apply_corrections") /\ response'.error = "none") =>
           LET d == response'.document_id
               req == response'.request
               appended == SubSeq(audit_logs', Len(audit_logs) + 1, Len(audit_logs'))
               supplied == req.structured_fields # None
               some_correction == req.corrections # <<>>
           IN  /\ SubSeq(audit_logs', 1, Len(audit_logs)) = audit_logs
               /\ \A i \in DOMAIN appended : appended[i].document_id = d
               /\ EntriesOf(appended, "corrections_applied")
                     = IF some_correction THEN 1 ELSE 0
               /\ EntriesOf(appended, "review_completed")
                     = IF req.review_complete THEN 1 ELSE 0
               /\ EntriesOf(appended, "review_saved")
                     = IF req.review_complete THEN 0 ELSE 1
               /\ EntriesOf(appended, "fields_updated") = IF supplied THEN 1 ELSE 0
               /\ Len(appended) = (IF some_correction THEN 1 ELSE 0) + 1
                                      + (IF supplied THEN 1 ELSE 0)
               /\ supplied =>
                     documents'[d].structured_fields = req.structured_fields[1]
               /\ ~supplied =>
                     documents'[d].structured_fields = documents[d].structured_fields
      ]_vars

\* a partial save with fields was followed by a completed review with a
\* correction and other fields: the log ends with the three entries of the
\* second call after the two of the first, and the document has the fields
\* of the second call
C28_Witness ==
    /\ Accepted("apply_corrections")
    /\ response.request.review_complete
    /\ response.request.structured_fields = Some([vendor |-> <<"Acme">>])
    /\ Len(audit_logs) >= 5
    /\ LET n == Len(audit_logs)
       IN  /\ audit_logs[n - 4].event_type = "review_saved"
           /\ audit_logs[n - 3].event_type = "fields_updated"
           /\ audit_logs[n - 2].event_type = "corrections_applied"
           /\ audit_logs[n - 1].event_type = "review_completed"
           /\ audit_logs[n].event_type = "fields_updated"
    /\ \E d \in DocIds : documents[d].structured_fields = [vendor |-> <<"Acme">>]

----------------------------------------------------------------------------
(* services/summary.py: the document type of _build_summary_from_text *)

\* the longest text, in lines
MaxLines == 3

\* lines of one word: words that hit no keyword, one keyword or two
\* ("subtotal" contains "total"), of three labels of the table
SignalWords == {"Acme", "Total", "Subtotal", "Invoice", "Statement", "Balance", "Report"}

SignalInputs ==
    {Input("document_type", lines) :
        lines \in UNION {[1..n -> {<<w>> : w \in SignalWords}] : n \in 0..MaxLines}}

\* best_label, best_hits and confidence after the loop over doc_signals
call_document_type ==
    /\ response.op = "none"
    /\ response.fn = "document_type"
    /\ LET best == BestSignal(1, response.request, "Unknown", 0)
       IN  response' = Output("document_type", response.request,
                              [document_type |-> best.label,
                               confidence |-> SignalConfidence(best.hits)])
    /\ UNCHANGED <<documents, tokens, corrections, audit_logs, queue, worker,
                   redelivered, rules_cache, calls, sessions>>

\* the keywords of the i-th label that occur in the lowercased text
KeywordHits(i, lines) ==
    {k \in DOMAIN DocSignals[i][2] :
        \E n \in DOMAIN lines : \E a \in DOMAIN lines[n] :
            TermInAtom(DocSignals[i][2][k], lines[n][a])}

\* the highest number of hits of the labels
TopHits(lines) ==
    CHOOSE h \in 0..9 :
        /\ \E i \in DOMAIN DocSignals : Cardinality(KeywordHits(i, lines)) = h
        /\ \A i \in DOMAIN DocSignals : Cardinality(KeywordHits(i, lines)) <= h

----------------------------------------------------------------------------
(* services/summary.py: the dates of _build_summary_from_text *)

\* the longest text given to the date extraction, in lines
MaxDateLines == 2

\* a date in two spellings, an ISO date and a word that is no date
DateWords == {"Jan 5, 2026", "JAN 5, 2026", "2026-02-01", "Acme"}

\* lines of one word, or of two words with a space between them
DateLines == {<<w>> : w \in DateWords} \cup {<<v, SP, w>> : v, w \in DateWords}

DateInputs ==
    {Input("extract_dates", lines) :
        lines \in UNION {[1..n -> DateLines] : n \in 0..MaxDateLines}}

\* the list dates after the loop over the lines and the date patterns
call_extract_dates ==
    /\ response.op = "none"
    /\ response.fn = "extract_dates"
    /\ response' = Output("extract_dates", response.request,
                          ExtractDates(response.request))
    /\ UNCHANGED <<documents, tokens, corrections, audit_logs, queue, worker,
                   redelivered, rules_cache, calls, sessions>>

\* a match without its letter case; the matches of the patterns begin and
\* end at a word boundary, so there is no whitespace to trim
FoldCase(value) ==
    IF value \in {"Jan 5, 2026", "JAN 5, 2026"} THEN "jan 5, 2026" ELSE value

\* the matches in the order of discovery: line by line, and in a line the
\* five patterns in their order
Discovered(lines) ==
    Flatten([i \in 1..Len(lines) |->
        Flatten([p \in 1..Len(DatePatterns) |-> FindAll(DatePatterns[p], lines[i])])])

\* the first match of every class of matches equal but for letter case
RECURSIVE FirstSeen(_, _)
FirstSeen(found, out) ==
    IF found = <<>> THEN out
    ELSE FirstSeen(Tail(found),
             IF \E i \in DOMAIN out : FoldCase(out[i]) = FoldCase(Head(found))
             THEN out ELSE Append(out, Head(found)))

\* C30: date extraction deduplicates first-seen-wins, case- and
\* whitespace-insensitively on the trimmed match, and preserves discovery
\* order (lines in order, the five pattern families in fixed priority within
\* a line): two matches that differ only in letter case or surrounding
\* whitespace appear once in the output, as the first one discovered.
C30_DatesDedupedIgnoringCase ==
    Returned("extract_dates") =>
        LET out == response.result
        IN  /\ out = FirstSeen(Discovered(response.request), <<>>)
            /\ \A i, j \in DOMAIN out : i # j => FoldCase(out[i]) # FoldCase(out[j])

----------------------------------------------------------------------------
(* services/summary.py: the amounts of _build_summary_from_text *)

\* the longest text given to the amount extraction, in lines
MaxAmountLines == 2

\* a word without keyword, a total keyword and a subtotal keyword
AmountWords == {"Acme", "Total", "Tax"}

\* an amount with a symbol, two bare numbers with the same normalized form,
\* and an amount with a currency code
Amounts == {"$12.00", "12,50", "12.50", "USD 1,234.50"}

\* a word and an amount, or a word, a symbol amount and a bare number
AmountLines ==
    {<<w, SP, a>> : w \in AmountWords, a \in Amounts}
        \cup {<<w, SP, "$12.00", SP, "12,50">> : w \in AmountWords}

Locales == {"US", "EU"}

AmountInputs ==
    {Input("extract_amounts", [lines |-> lines, locale_override |-> locale_override]) :
        lines \in UNION {[1..n -> AmountLines] : n \in 0..MaxAmountLines},
        locale_override \in {None} \cup {Some(l) : l \in Locales}}

\* locale = locale_override or _detect_locale(lines), then the three passes
call_extract_amounts ==
    /\ response.op = "none"
    /\ response.fn = "extract_amounts"
    /\ LET lines == response.request.lines
           locale == OrElse(response.request.locale_override, detect_locale(lines))
       IN  response' = Output("extract_amounts", response.request,
                              [locale |-> locale, amounts |-> ExtractAmounts(lines, locale)])
    /\ UNCHANGED <<documents, tokens, corrections, audit_logs, queue, worker,
                   redelivered, rules_cache, calls, sessions>>

\* the symbol and code amounts of a line
MarkedAmounts(line) == FindAll("currency_symbol", line) \o FindAll("currency_code", line)

\* what a pass takes from a line: the symbol and code amounts, and if the
\* pass allows bare numbers and the line has none of those, its bare numbers
Taken(line, plain) ==
    IF plain /\ MarkedAmounts(line) = <<>>
    THEN FindAll("number_amount", line) ELSE MarkedAmounts(line)

\* the values in the order of discovery: the lines with a total keyword,
\* then the lines with a subtotal, tax or balance keyword, then all lines
DiscoveredAmounts(lines) ==
    Flatten([i \in DOMAIN lines |->
                IF AnyTermIn(TotalTerms, lines[i]) THEN Taken(lines[i], TRUE) ELSE <<>>])
    \o Flatten([i \in DOMAIN lines |->
                IF AnyTermIn(SubtotalTerms, lines[i]) THEN Taken(lines[i], TRUE) ELSE <<>>])
    \o Flatten([i \in DOMAIN lines |-> Taken(lines[i], FALSE)])

\* the place of the first discovery of a normalized value
FirstDiscovery(found, normalized) ==
    CHOOSE i \in DOMAIN found :
        /\ found[i] = normalized
        /\ \A j \in 1..(i - 1) : found[j] # normalized

\* C31: the amounts are built in three passes in this order: amounts on
\* lines with a total keyword, then on lines with a subtotal, tax or balance
\* keyword, then the symbol and code amounts of all lines; a value is
\* appended only if its normalized form was not seen before, so no two
\* entries have the same normalized value and each keeps the position of its
\* first discovery; bare numbers are taken only on keyword lines without a
\* symbol or code match.
C31_AmountsInThreePasses ==
    Returned("extract_amounts") =>
        LET lines == response.request.lines
            out == response.result.amounts
            values == DiscoveredAmounts(lines)
            found == [i \in DOMAIN values |->
                         normalize_amount(values[i], response.result.locale)]
        IN  /\ \A i, j \in DOMAIN out : i # j => out[i] # out[j]
            /\ {out[i] : i \in DOMAIN out} = {found[i] : i \in DOMAIN found}
            /\ \A i, j \in DOMAIN out :
                  i < j => FirstDiscovery(found, out[i]) < FirstDiscovery(found, out[j])

\* a symbol amount on a line without keyword comes after the bare number of
\* the total line, which is listed once although a tax line has it in
\* another spelling; the bare number beside the symbol amount is not taken
C31_Witness ==
    /\ Returned("extract_amounts")
    /\ \/ /\ response.request.lines =
                << <<"Tax", SP, "12.50">>, <<"Total", SP, "12,50">> >>
          /\ response.result.amounts = << Chars("12.50") >>
       \/ /\ response.request.lines =
                << <<"Acme", SP, "$12.00", SP, "12,50">>, <<"Total", SP, "12.50">> >>
          /\ response.result.amounts = << Chars("12.50"), Chars("$12.00") >>

----------------------------------------------------------------------------
(* services/summary.py: normalize_amount applied to the matched amounts *)

\* the values the amount patterns match in the vocabulary
MatchedAmounts == {"$12.00", "12,50", "12.50", "USD 1,234.50", "usd 1,234.50", "1.234,56"}

NormalizeInputs ==
    {Input("normalize_amount", [value |-> value, locale |-> locale]) :
        value \in MatchedAmounts, locale \in Locales}

call_normalize_amount ==
    /\ response.op = "none"
    /\ response.fn = "normalize_amount"
    /\ response' = Output("normalize_amount", response.request,
                          normalize_amount(response.request.value, response.request.locale))
    /\ UNCHANGED <<documents, tokens, corrections, audit_logs, queue, worker,
                   redelivered, rules_cache, calls, sessions>>

Digits == {"0", "1", "2", "3", "4", "5", "6", "7", "8", "9"}

DigitsOf(chars) == SelectSeq(chars, LAMBDA c : c \in Digits)

\* the places of the commas and dots of a value
Separators(chars) == {i \in DOMAIN chars : chars[i] \in {",", "."}}

Rightmost(places) == CHOOSE i \in places : \A j \in places : j <= i

\* the digits of a value with "." in the place of its rightmost separator
RightmostAsDecimal(chars) ==
    LET last == Rightmost(Separators(chars))
    IN  DigitsOf(SubSeq(chars, 1, last - 1)) \o <<".">>
            \o DigitsOf(SubSeq(chars, last + 1, Len(chars)))

\* the digits of a value, its commas and dots removed
NoSeparator(chars) == DigitsOf(chars)

\* the currency of a value: the code in capitals and a space, or the symbol
CurrencyOf(chars) ==
    IF chars[1] \in {"USD", "usd"} THEN <<"USD", " ">>
    ELSE IF chars[1] \in {"$", "£", "€"} THEN <<chars[1]>>
    ELSE <<>>

OnlyCommas(chars) ==
    /\ \E i \in DOMAIN chars : chars[i] = ","
    /\ \A i \in DOMAIN chars : chars[i] # "."

\* C32 as the specification states it: for an amount with commas only the
\* locale decides whether the comma is decimal (EU) or thousands (US).
C32_LocaleDecidesComma ==
    (Returned("normalize_amount") /\ OnlyCommas(Chars(response.request.value))) =>
        LET chars == Chars(response.request.value)
        IN  response.result =
                CurrencyOf(chars) \o (IF response.request.locale = "EU"
                                      THEN RightmostAsDecimal(chars)
                                      ELSE NoSeparator(chars))

\* C32: when an amount contains both a comma and a dot, the rightmost of the
\* two is the decimal separator (output as ".") and the other is removed;
\* when it contains only commas the comma is the decimal separator under
\* either locale (the matched amounts end in two digits); a currency code is
\* uppercased and followed by one space and a currency symbol is kept as a
\* prefix, so "USD 1,234.50" becomes "USD 1234.50" and a bare "12,50"
\* yields "12.50"; the locale is determined once per document, before any
\* amount is normalized, and is the same for all its amounts.
C32_AmountNormalization ==
    /\ Returned("normalize_amount") =>
          LET chars == Chars(response.request.value)
          IN  /\ response.result = CurrencyOf(chars) \o RightmostAsDecimal(chars)
              /\ response.request.value = "USD 1,234.50" =>
                    response.result = <<"USD", " ", "1", "2", "3", "4", ".", "5", "0">>
              /\ response.request.value = "12,50" =>
                    response.result = <<"1", "2", ".", "5", "0">>
    /\ Returned("extract_amounts") =>
          LET lines == response.request.lines
              override == response.request.locale_override
              values == DiscoveredAmounts(lines)
          IN  /\ response.result.locale =
                    IF override # None THEN override[1]
                    ELSE IF \E i \in DOMAIN lines : \E a \in DOMAIN lines[i] :
                                lines[i][a] \in {"12,50", "1.234,56"}
                    THEN "EU" ELSE "US"
              /\ \A i \in DOMAIN response.result.amounts :
                    \E j \in DOMAIN values :
                        response.result.amounts[i] =
                            normalize_amount(values[j], response.result.locale)

\* under the US locale the bare number 12,50 was normalized to 12.50
C32_Witness ==
    /\ Returned("normalize_amount")
    /\ response.request = [value |-> "12,50", locale |-> "US"]
    /\ response.result = <<"1", "2", ".", "5", "0">>

----------------------------------------------------------------------------
(* services/summary.py: the character budget of build_detailed_summary *)

\* the longest summary_text, in characters, and the largest SUMMARY_MAX_CHARS
MaxChars == 6
MaxBudget == 5

\* summary_text as build_detailed_summary joins it: cleaned lines that end
\* in a full stop, without leading, trailing or doubled blanks
SummaryTexts ==
    {t \in UNION {[1..n -> {"a", " ", "."}] : n \in 1..MaxChars} :
        /\ t[1] # " "
        /\ t[Len(t)] = "."
        /\ \A i \in 1..(Len(t) - 1) : ~(t[i] = " " /\ t[i + 1] = " ")}

\* summary_text.rfind(" ", 0, end): 0-based index of the last blank before
\* end, -1 when there is none
RFindBlank(text, end) ==
    LET places == {i \in 1..Len(text) : text[i] = " " /\ i <= end}
    IN  IF places = {} THEN -1
        ELSE (CHOOSE i \in places : \A j \in places : j <= i) - 1

\* if max_chars > 0 and len(summary_text) > max_chars: cut at the last blank
\* before max_chars - 1, or at max_chars - 1, rstrip and add "..."
Truncated(summary_text, max_chars) ==
    IF max_chars > 0 /\ Len(summary_text) > max_chars THEN
        LET found == RFindBlank(summary_text, max_chars - 1)
            cutoff == IF found > 0 THEN found ELSE 0
            end == IF cutoff # 0 THEN cutoff ELSE max_chars - 1
        IN  RStrip(SubSeq(summary_text, 1, end)) \o <<".", ".", ".">>
    ELSE summary_text

BudgetInputs ==
    {Input("build_detailed_summary", [summary_text |-> t, max_chars |-> m]) :
        t \in SummaryTexts, m \in 1..MaxBudget}

call_build_detailed_summary ==
    /\ response.op = "none"
    /\ response.fn = "build_detailed_summary"
    /\ LET summary_text == Truncated(response.request.summary_text,
                                     response.request.max_chars)
       IN  response' = Output("build_detailed_summary", response.request,
                              IF summary_text # <<>> THEN summary_text
                              ELSE <<"N", "o", " ", "t", "e", "x", "t", " ",
                                     "d", "e", "t", "e", "c", "t", "e", "d">>)
    /\ UNCHANGED <<documents, tokens, corrections, audit_logs, queue, worker,
                   redelivered, rules_cache, calls, sessions>>

\* C33: the deterministic narrative summary is truncated at the configured
\* character budget: for every input and every positive SUMMARY_MAX_CHARS the
\* returned summary, ellipsis included, is never longer than the budget, and
\* a text at or under the budget is returned without an ellipsis.
C33_SummaryWithinBudget ==
    Returned("build_detailed_summary") =>
        LET text == response.request.summary_text
            budget == response.request.max_chars
        IN  /\ Len(response.result) <= budget
            /\ Len(text) <= budget => response.result = text

----------------------------------------------------------------------------
(* services/summary.py: _load_rules and its cache *)

\* what open(rules_path) finds at the time of a call: no file (None), or a
\* file with a JSON object; the file can change between two calls
RuleFiles ==
    {None, Some(EmptyMap),
     Some([total_terms |-> <<"total">>]),
     Some([total_terms |-> <<"sum">>]),
     Some([subtotal_terms |-> <<"tax">>]),
     Some([subtotal_terms |-> <<"vat">>]),
     Some([total_terms |-> <<"total">>, subtotal_terms |-> <<"tax">>]),
     Some([total_terms |-> <<"sum">>, subtotal_terms |-> <<"vat">>])}

\* if _RULES_CACHE: return it; else read the file into it ({} when the file
\* is not found).  response records whether the call opened the file.
load_rules(file) ==
    /\ calls < MaxCalls
    /\ calls' = calls + 1
    /\ IF rules_cache # EmptyMap THEN
           /\ rules_cache' = rules_cache
           /\ response' = [op |-> "load_rules", request |-> file, opened |-> FALSE,
                           result |-> rules_cache]
       ELSE
           /\ rules_cache' = IF file = None THEN EmptyMap ELSE file[1]
           /\ response' = [op |-> "load_rules", request |-> file, opened |-> TRUE,
                           result |-> rules_cache']
    /\ UNCHANGED <<documents, tokens, corrections, audit_logs, queue, worker,
                   redelivered, sessions>>

NextRules == \E file \in RuleFiles : load_rules(file)

SpecRules == Init /\ [][NextRules]_vars

\* C34: the extraction rules are loaded once and then immutable for the
\* process lifetime: after the first _load_rules call no later call reads
\* the rules file again or changes the cached value, whatever the file
\* contained or whether it existed.
C34_RulesLoadedOnce ==
    [][ (calls >= 1 /\ calls' = calls + 1) =>
            /\ ~response'.opened
            /\ rules_cache' = rules_cache ]_vars

----------------------------------------------------------------------------
(* A validation that an OCR run interleaves with *)

\* C35: whenever a document's status is validated, every forced-review
\* token currently stored for the document was in the reviewed set of the
\* completing call and the persisted validated_text is the reassembly of the
\* currently stored tokens, even when an OCR run for the document
\* interleaves with apply_corrections (the call reads the tokens, the OCR
\* run replaces them, the call commits).
C35_ValidatedCoversStoredTokens ==
    \A d \in DocIds :
        ( /\ documents[d] # NoRow
          /\ documents[d].status = "validated"
          /\ Accepted("apply_corrections")
          /\ response.document_id = d
          /\ response.request.review_complete ) =>
            /\ \A t \in DocTokens(d) :
                  t.forced_review => t.id \in reviewed_set(response.request)
            /\ documents[d].validated_text =
                  Some(JoinedLines(DocTokens(d), response.request))

----------------------------------------------------------------------------
(* The worker under fair scheduling *)

\* one step of the celery worker: it takes a delivered task, or carries on
\* with the task it holds
process_document ==
    \/ \E d \in DocIds : process_document_start(d)
    \/ \E raw_tokens \in OcrPages : run_ocr_commit(raw_tokens)
    \/ run_ocr_audit
    \/ process_document_failed

\* The worker eventually executes the tasks delivered to it: a worker step
\* that stays possible is eventually taken.  Nothing makes the API clients or
\* the broker's re-delivery act.
SpecWorker == Init /\ [][Next]_vars /\ WF_vars(process_document)

\* the row of d has reached the end of OCR
OcrSettled(d) ==
    documents[d] # NoRow /\ documents[d].status \in {"ocr_done", "failed"}

\* C36: every document row the upload operation created eventually has status
\* ocr_done or failed, given that the worker eventually executes the tasks
\* delivered to it; the claim includes the upload whose dispatch failed after
\* the row was committed.
C36_UploadedRowEventuallySettles ==
    \A d \in DocIds : (documents[d] # NoRow) ~> OcrSettled(d)

----------------------------------------------------------------------------
(* The task of an upload and the row it finds *)

\* C37: a task is in the queue only once the row of its document is
\* committed, so the task finds the row; and when the task of an upload is
\* delivered for the first time, the status it finds before it writes
\* processing is uploaded.
C37_TaskFindsUploadedRow ==
    /\ [](\A d \in queue : documents[d] # NoRow)
    /\ [][\A d \in DocIds :
            (redelivered = 0 /\ process_document_start(d))
                => documents[d].status = "uploaded"]_vars

----------------------------------------------------------------------------
(* An exported document *)

\* a step of the worker on some document
WorkerStep == worker' # worker

\* C38: while a document has status exported, every export request and every
\* build_summary request for it is rejected with document_not_validated and
\* changes no row; and the status leaves exported only by an apply_corrections
\* call or by a step of an OCR run.
C38_ExportNotRepeatable ==
    [][\A d \in DocIds :
          (documents[d] # NoRow /\ documents[d].status = "exported") =>
              /\ ((Served("export_document") \/ Served("build_summary"))
                      /\ response'.document_id = d)
                     => /\ response'.error = "document_not_validated"
                        /\ UNCHANGED <<documents, tokens, corrections, audit_logs, queue>>
              /\ documents'[d].status # "exported"
                     => (Served("apply_corrections") \/ WorkerStep)]_vars

\* an export request or a summary request rejected on an exported document
C38_Witness ==
    /\ response.op \in {"export_document", "build_summary"}
    /\ response.error = "document_not_validated"
    /\ documents[response.document_id].status = "exported"

----------------------------------------------------------------------------
(* Review progress between calls *)

\* the token ids a request carries: reviewed or corrected in that request
Carried(req) == req.reviewed_token_ids \cup CorrectedIds(req)

\* the forced-review tokens stored for d
ForcedIds(d) == {t.id : t \in {u \in DocTokens(d) : u.forced_review}}

\* the tokens of d an earlier call stored a correction for, with another
\* text than the token's own
EarlierCorrected(d) ==
    {t.id : t \in {u \in DocTokens(d) :
        \E i \in DOMAIN corrections :
            /\ corrections[i].token_id = u.id
            /\ corrections[i].corrected_text # u.text}}

\* C39: an apply_corrections call uses only what the call carries: a
\* completing call that leaves out a forced-review token is rejected with
\* review_incomplete whatever earlier calls stored for that token, and the
\* validated_text of an accepted call is the stored tokens with this call's
\* corrections alone.
C39_ReviewProgressNotRemembered ==
    [][\A d \in DocIds :
          (Served("apply_corrections") /\ response'.document_id = d
               /\ documents[d] # NoRow) =>
              LET req == response'.request IN
              /\ (req.review_complete /\ ~(ForcedIds(d) \subseteq Carried(req)))
                     => /\ response'.error = "review_incomplete"
                        /\ UNCHANGED <<documents, corrections, audit_logs>>
              /\ response'.error = "none"
                     => response'.result[1].validated_text
                            = JoinedLines(DocTokens(d), req)]_vars

\* a completing call rejected for a forced-review token that an earlier
\* partial save corrected
C39_RejectedDespiteEarlierCorrection ==
    /\ Answered("apply_corrections")
    /\ response.error = "review_incomplete"
    /\ \E id \in ForcedIds(response.document_id) \ Carried(response.request) :
           \E i \in DOMAIN corrections : corrections[i].token_id = id

\* an accepted call that does not resubmit an earlier correction: the token
\* has its own text in the validated_text of the call
C39_EarlierCorrectionNotInText ==
    /\ Accepted("apply_corrections")
    /\ EarlierCorrected(response.document_id) \ CorrectedIds(response.request) # {}
    /\ response.result[1].validated_text
           = JoinedLines(DocTokens(response.document_id),
                         [response.request EXCEPT !.corrections = <<>>])
    /\ response.result[1].validated_text # <<>>

C39_Witness ==
    \/ C39_RejectedDespiteEarlierCorrection
    \/ C39_EarlierCorrectionNotInText

----------------------------------------------------------------------------
(* The specification of the calls *)

CallInputs == <<ConfidenceInputs, LlmInputs, GroupInputs, SignalInputs, DateInputs,
               AmountInputs, NormalizeInputs, BudgetInputs>>

InitCalls ==
    /\ documents = [d \in DocIds |-> NoRow]
    /\ tokens = {}
    /\ corrections = <<>>
    /\ audit_logs = <<>>
    /\ queue = {}
    /\ worker = Idle
    /\ redelivered = 0
    /\ calls = 0
    /\ sessions = [p \in Procs |-> Idle]
    /\ rules_cache = EmptyMap
    /\ \E i \in DOMAIN CallInputs : response \in CallInputs[i]

NextCalls ==
    \/ call_classify_confidence
    \/ call_fetch_llm_detailed_summary
    \/ call_line_group_tokens
    \/ call_line_group_tokens_again
    \/ call_document_type
    \/ call_extract_dates
    \/ call_extract_amounts
    \/ call_normalize_amount
    \/ call_build_detailed_summary

SpecCalls == InitCalls /\ [][NextCalls]_vars

====
